---- MODULE Spec2Model ----
(***************************************************************************)
(* Orchestration core of the multi-agent research assistant:               *)
(*   src/src/orchestrator.py        GraphExecutionManager, Orchestrator    *)
(*   src/src/cognition/cognition.py SharedMemory                           *)
(*   src/src/agents/*.py            the workers' replies                   *)
(*   src/src/agents/gateway.py      GatewayAgent                           *)
(*   src/webcrawler/app/crawler.py  Crawler.process_url and its ledger     *)
(*   src/src/agents/architect.py    ArchitectAgent._condense_context       *)
(*   src/src/agent_registry.py      AgentRegistry                          *)
(*   src/src/data/session_ledger.py SessionLedger.create_session           *)
(* Request ids and SharedMemory keys are sequences of characters/tokens,   *)
(* so that str.startswith is a real prefix test.                           *)
(***************************************************************************)
EXTENDS Integers, Sequences, FiniteSets, Bags, TLC

VARIABLES
    memory,         \* SharedMemory._memory : key -> value
    active_graphs,  \* Orchestrator.active_graphs : request_id -> graph state
    registry,       \* agent types that have a registered address
    goals,          \* bag of AgentGoal{TASK} messages in flight to workers
    thoughts,       \* bag of Thought messages in flight to the conductor
    plan_goals,     \* request_id -> PLAN goals/thoughts outstanding at the planner
    replans,        \* request_id -> ReplanRequests in flight to the conductor
    planned,        \* number of PLAN goals issued so far (bounded)
    outbox,         \* messages sent by the handler that ran last
    sent_nodes,     \* history: nodes of the current graph an AgentGoal was sent for
    done_nodes,     \* history: nodes of the current graph on_node_complete ran for
    finals,         \* history: final Responses emitted for the current graph
    enqueued,       \* history: nodes of the current graph ever put into execution_queue
    dequeued,       \* history: nodes of the current graph in the order they were dequeued
    sent_steps,     \* history: <<node_id, step_id>> of the AgentGoals of the current graph
    responses,      \* bag of Response messages in flight to the gateway
    queries,        \* GatewayAgent._queries : request_id -> original query
    response_queue, \* GatewayAgent.response_queue
    posted,         \* history: the results POSTed to the chat server, in order
    aborted,        \* history: requests whose graph handle_failure has removed
    pot_msg,        \* Compute worker: the AgentGoal it is handed
    pot_env,        \* Compute worker: what the child process and the OS do
    pot_pc,         \* Compute worker: "waiting" before the handler, "done" after
    pot_sent,       \* Compute worker: the Thoughts it has sent, in order
    crawl,          \* crawler: fetch worker -> its position and locals in process_url
    crawls,         \* crawler: number of process_url calls started so far (bounded)
    failures,       \* crawler: number of ledger/vector-store calls that raised (bounded)
    locks,          \* ledger: URLs whose crawl_lock key exists
    records,        \* ledger: URL -> CrawlingLedger record (hash crawled:<url>)
    chunk_refcount, \* ledger: chunk hash -> value of its crawler:chunk_refcount field
    url_chunks,     \* ledger: URL -> members of its crawler:url_chunks set
    store,          \* vector store: ids of the chunk documents it holds
    crawl_queue,    \* ledger: the list crawl_queue, head first
    discovery_queue,\* Crawler.discovery_queue, oldest first
    seen_urls,      \* ledger: members of the set crawler:seen_urls
    shutdown,       \* Crawler._shutdown
    fetch,          \* fetch worker -> its position and locals in fetch_worker
    manager,        \* position and local of enqueue_manager
    stopper,        \* position of stop() and the sentinels it has yet to push
    seeded,         \* history: URLs ever submitted through POST /crawl
    admitted,       \* history: URL -> times enqueue_manager pushed it
    posts,          \* number of POST /crawl requests so far (bounded)
    now,            \* rate limiter: time.time(), in ticks
    last_request_time, \* Crawler.last_request_time[domain]
    semaphore,      \* value of Crawler.domain_semaphores[domain]
    rate,           \* fetch worker -> its position and locals in _rate_limited_fetch
    last_completed, \* history: time the last fetch attempt of the domain completed
    calls,          \* number of _rate_limited_fetch calls so far (bounded)
    pending_requests, \* chat server: request_id -> status and accumulated result
    forwarding,     \* chat server: requests whose forward_to_bureau task is under way
    callbacks,      \* chat server: number of POST /api/result requests so far (bounded)
    request_queue,  \* BaseAgent.request_queue, oldest first
    drain,          \* position and local of process_request_queue
    running,        \* goals whose func is being executed
    submitted,      \* history: the goals in the order the wrappers enqueued them
    executed,        \* history: the goals in the order their func ended, and how
    gateway,  \* GatewayAgent: query_queue, _queries and what it sent to the conductor
    architect,  \* ArchitectAgent: locals of process_synthesis and _condense_context
    agent_registry,  \* AgentRegistry._agents, and the pairs registered more than once
    session_ledger  \* SessionLedger: the session hashes in Redis and the callers of create_session

vars == <<memory, active_graphs, registry, goals, thoughts, plan_goals, replans,
          planned, outbox, sent_nodes, done_nodes, finals,
          enqueued, dequeued, sent_steps,
          responses, queries, response_queue, posted, aborted,
          pot_msg, pot_env, pot_pc, pot_sent,
          crawl, crawls, failures, locks, records, chunk_refcount, url_chunks, store,
          crawl_queue, discovery_queue, seen_urls, shutdown, fetch, manager, stopper,
          seeded, admitted, posts,
          now, last_request_time, semaphore, rate, last_completed, calls,
          pending_requests, forwarding, callbacks,
          request_queue, drain, running, submitted, executed,
          gateway,
          architect,
          agent_registry,
          session_ledger>>

\* the chat server
chat_vars == <<pending_requests, forwarding, callbacks>>

\* the request queue of a worker
base_vars == <<request_queue, drain, running, submitted, executed>>

\* the crawler's rate limiter
rate_vars == <<now, last_request_time, semaphore, rate, last_completed, calls>>

\* the crawler's queues and the tasks around them
queue_vars == <<crawl_queue, discovery_queue, seen_urls, shutdown, fetch, manager, stopper,
                seeded, admitted, posts>>

\* the state of the crawler, its ledger and the vector store
crawl_vars == <<crawl, crawls, failures, locks, records, chunk_refcount, url_chunks, store>>

\* the state of the Compute worker taken on its own
pot_vars == <<pot_msg, pot_env, pot_pc, pot_sent>>

\* the state of conductor, orchestrator, the workers of a graph, and gateway
orch_vars == <<memory, active_graphs, registry, goals, thoughts, plan_goals, replans,
               planned, outbox, sent_nodes, done_nodes, finals,
               enqueued, dequeued, sent_steps,
               responses, queries, response_queue, posted, aborted>>

\* what a step of conductor, orchestrator, workers or gateway leaves alone
not_orch == <<pot_vars, crawl_vars, queue_vars, rate_vars, chat_vars, base_vars, gateway, architect, agent_registry, session_ledger>>

----------------------------------------------------------------------------
(* Bounds *)

MaxPlans == 2

\* process_url calls per behaviour of the crawler
MaxCrawls == 2

\* ledger or vector-store calls that raise per behaviour of the crawler
MaxFailures == 1

----------------------------------------------------------------------------
(* Request ids, node ids, agent types *)

RidA == <<"a">>
RidB == <<"a", "b">>
RequestIds == {RidA, RidB}

NodeIds == {"n1", "n2", "n3"}
UnknownId == "x"

WorkerTypes == {"scout", "compute", "synthesize"}

QueryText == "what is it"

----------------------------------------------------------------------------
(* SharedMemory keys: f"{request_id}:query", f"{request_id}:{step_id}:{name}" *)

Digits == <<"1", "2", "3", "4", "5", "6", "7", "8", "9">>

\* str(step_counter)
Str(n) == Digits[n]

QueryKey(request_id) == request_id \o <<":", "query">>

ImpressionKey(request_id, step_id, impression) ==
    request_id \o <<":", step_id, ":", impression>>

\* key.startswith(request_id)
StartsWith(key, request_id) ==
    /\ Len(key) >= Len(request_id)
    /\ SubSeq(key, 1, Len(request_id)) = request_id

None == "None"

\* SharedMemory.set
MemSet(m, key, value) == [k \in DOMAIN m \cup {key} |-> IF k = key THEN value ELSE m[k]]

\* SharedMemory.get
MemGet(m, key) == IF key \in DOMAIN m THEN m[key] ELSE None

\* SharedMemory.clear_session with the query entry always deleted
clear_session_ignores_preserve(m, request_id, preserve_query) ==
    [k \in {key \in DOMAIN m : ~StartsWith(key, request_id)} |-> m[k]]

\* SharedMemory.clear_session
clear_session(m, request_id, preserve_query) ==
    LET query_key == QueryKey(request_id)
        keys_to_delete == {key \in DOMAIN m :
                              /\ StartsWith(key, request_id)
                              /\ ~(preserve_query /\ key = query_key)}
    IN  [k \in DOMAIN m \ keys_to_delete |-> m[k]]

----------------------------------------------------------------------------
(* Plans the planner may hand over (external configuration).  A plan is     *)
(* the parsed YAML: nodes in declaration order, their types, edges in       *)
(* declaration order, the terminal node.  yaml_ok = FALSE is text that      *)
(* yaml.safe_load rejects; has_terminal = FALSE is a graph without the      *)
(* terminal_node key.                                                       *)

Plan(nodes, type, edges, terminal) ==
    [nodes |-> nodes, type |-> type, edges |-> edges, terminal |-> terminal,
     has_terminal |-> TRUE, yaml_ok |-> TRUE]

Types3 == [n \in NodeIds |-> IF n = "n3" THEN "synthesize" ELSE "scout"]
TypesC == [n \in NodeIds |-> IF n = "n1" THEN "compute" ELSE "synthesize"]

\* two searches feeding one synthesis
PlanFanIn == Plan(<<"n1", "n2", "n3">>, Types3,
                  <<<<"n1", "n3">>, <<"n2", "n3">>>>, "n3")
\* a single Compute node
PlanCompute == Plan(<<"n1">>, TypesC, <<>>, "n1")
\* the cycle a -> b, b -> a
PlanCycle == Plan(<<"n1", "n2">>, Types3,
                  <<<<"n1", "n2">>, <<"n2", "n1">>>>, "n2")
\* an entry node in front of a cycle
PlanEntryCycle == Plan(<<"n1", "n2", "n3">>, Types3,
                  <<<<"n1", "n2">>, <<"n2", "n3">>, <<"n3", "n2">>>>, "n3")
\* an edge whose 'from' is not a node
PlanUnknownFrom == Plan(<<"n1", "n2">>, Types3, <<<<UnknownId, "n2">>>>, "n2")
\* an edge whose 'to' is not a node
PlanUnknownTo == Plan(<<"n1", "n2">>, Types3, <<<<"n1", UnknownId>>>>, "n2")
\* a terminal that is not a node
PlanBadTerminal == Plan(<<"n1">>, Types3, <<>>, UnknownId)
\* no terminal_node key
PlanNoTerminal == [Plan(<<"n1">>, Types3, <<>>, UnknownId) EXCEPT !.has_terminal = FALSE]
\* not YAML
PlanNotYaml == [Plan(<<>>, Types3, <<>>, UnknownId) EXCEPT !.yaml_ok = FALSE]

Plans == {PlanFanIn, PlanCompute, PlanCycle, PlanEntryCycle, PlanUnknownFrom,
          PlanUnknownTo, PlanBadTerminal, PlanNoTerminal, PlanNotYaml}

NodeSet(plan) == {plan.nodes[i] : i \in DOMAIN plan.nodes}

----------------------------------------------------------------------------
(* GraphExecutionManager *)

OutputIds == NodeIds \cup {UnknownId}

\* number of edges into n (the += 1 loop of __init__)
InDegree(plan, n) == Cardinality({i \in DOMAIN plan.edges : plan.edges[i][2] = n})

\* adjacency_list[n]: the 'to' ends of n's edges, in declaration order
AdjacencyList(plan, n) ==
    LET idx == SelectSeq([i \in DOMAIN plan.edges |-> i],
                         LAMBDA i : plan.edges[i][1] = n)
    IN  [j \in DOMAIN idx |-> plan.edges[idx[j]][2]]

\* __init__ raises KeyError: no terminal_node key, or an edge 'to' that is
\* not a key of in_degree
InitRaises(plan) ==
    \/ ~plan.has_terminal
    \/ \E i \in DOMAIN plan.edges : plan.edges[i][2] \notin NodeSet(plan)

\* GraphExecutionManager.__init__
GraphInit(plan) ==
    LET in_degree == [n \in NodeSet(plan) |-> InDegree(plan, n)]
    IN  [plan |-> plan,
         in_degree |-> in_degree,
         execution_queue |-> SelectSeq(plan.nodes, LAMBDA n : in_degree[n] = 0),
         running_nodes |-> {},
         completed_nodes_count |-> 0,
         node_outputs |-> [n \in OutputIds |-> <<>>],
         step_counter |-> 0]

\* get_next_executable_node counting only the first step
GetNextExecutableNodeOneStep(g) ==
    [g EXCEPT !.step_counter = IF @ = 0 THEN 1 ELSE @,
              !.execution_queue = Tail(@),
              !.running_nodes = @ \cup {Head(g.execution_queue)}]

\* get_next_executable_node, for a non-empty queue
GetNextExecutableNode(g) ==
    [g EXCEPT !.step_counter = @ + 1,
              !.execution_queue = Tail(@),
              !.running_nodes = @ \cup {Head(g.execution_queue)}]

\* the successor loop of on_node_complete enqueuing at every in_degree <= 0
RECURSIVE ReleaseNeighborsAtOrBelowZero(_, _)
ReleaseNeighborsAtOrBelowZero(g, neighbors) ==
    IF neighbors = <<>> THEN g
    ELSE LET nb == Head(neighbors)
             d  == g.in_degree[nb] - 1
             g1 == [g EXCEPT !.in_degree[nb] = d,
                             !.execution_queue = IF d <= 0 THEN Append(@, nb) ELSE @]
         IN  ReleaseNeighborsAtOrBelowZero(g1, Tail(neighbors))

\* the successor loop of on_node_complete
RECURSIVE ReleaseNeighbors(_, _)
ReleaseNeighbors(g, neighbors) ==
    IF neighbors = <<>> THEN g
    ELSE LET nb == Head(neighbors)
             d  == g.in_degree[nb] - 1
             g1 == [g EXCEPT !.in_degree[nb] = d,
                             !.execution_queue = IF d = 0 THEN Append(@, nb) ELSE @]
         IN  ReleaseNeighbors(g1, Tail(neighbors))

\* on_node_complete
OnNodeComplete(g, node_id, output_keys) ==
    LET g1 == [g EXCEPT !.running_nodes = @ \ {node_id},
                        !.completed_nodes_count = @ + 1,
                        !.node_outputs[node_id] = @ \o output_keys]
    IN  ReleaseNeighbors(g1, AdjacencyList(g.plan, node_id))

\* dependencies[node_id] of get_inputs_for_node: the 'from' ends, in order
Dependencies(plan, node_id) ==
    LET idx == SelectSeq([i \in DOMAIN plan.edges |-> i],
                         LAMBDA i : plan.edges[i][2] = node_id)
    IN  [j \in DOMAIN idx |-> plan.edges[idx[j]][1]]

RECURSIVE ConcatOutputs(_, _)
ConcatOutputs(g, deps) ==
    IF deps = <<>> THEN <<>>
    ELSE g.node_outputs[Head(deps)] \o ConcatOutputs(g, Tail(deps))

\* get_inputs_for_node reading only the first dependency
GetInputsForNodeFirstOnly(g, node_id) ==
    LET deps == Dependencies(g.plan, node_id)
    IN  IF deps = <<>> THEN <<>> ELSE g.node_outputs[deps[1]]

\* get_inputs_for_node
GetInputsForNode(g, node_id) == ConcatOutputs(g, Dependencies(g.plan, node_id))

\* is_complete
IsComplete(g) == g.completed_nodes_count = Len(g.plan.nodes)

\* has_stalled
HasStalled(g) ==
    /\ g.execution_queue = <<>>
    /\ g.running_nodes = {}
    /\ ~IsComplete(g)

----------------------------------------------------------------------------
(* Messages *)

\* reason="Graph execution stalled, possible cycle in plan." as its words
StallReason == <<"Graph", "execution", "stalled", "possible", "cycle", "in", "plan">>

AgentGoal(request_id, node, step_counter, input_keys) ==
    [kind |-> "AgentGoal", to |-> node.type, request_id |-> request_id,
     node_id |-> node.id, step_id |-> Str(step_counter), content |-> input_keys]

Response(request_id, content) ==
    [kind |-> "Response", to |-> "gateway", request_id |-> request_id,
     content |-> content, type |-> 0 - 1]

ReplanRequest(request_id) ==
    [kind |-> "ReplanRequest", to |-> "conductor", request_id |-> request_id,
     reason |-> StallReason]

Thought(request_id, type, node_id, impressions) ==
    [request_id |-> request_id, type |-> type, node_id |-> node_id,
     impressions |-> impressions]

\* agent_registry.get_agent(agent_type): an address of that type, or None
GetAgent(reg, agent_type) == IF agent_type \in reg THEN agent_type ELSE None

----------------------------------------------------------------------------
(* Orchestrator.  Each operator maps the orchestrator's state (active_graphs, *)
(* SharedMemory) to the state after the call and the messages it sent.        *)

Result(ag, mem, out) == [active_graphs |-> ag, memory |-> mem, out |-> out]

\* _cleanup_graph without the del
RemoveKeepsGraph(ag, request_id) == ag

Remove(ag, request_id) == [r \in DOMAIN ag \ {request_id} |-> ag[r]]

Put(ag, request_id, g) == [r \in DOMAIN ag \cup {request_id} |-> IF r = request_id THEN g ELSE ag[r]]

\* _cleanup_graph without the call of clear_session
CleanupGraphKeepsSession(ag, mem, request_id, preserve_query) ==
    [active_graphs |-> Remove(ag, request_id), memory |-> mem]

\* _cleanup_graph
CleanupGraph(ag, mem, request_id, preserve_query) ==
    [active_graphs |-> Remove(ag, request_id),
     memory |-> clear_session(mem, request_id, preserve_query)]

\* the while-loop of execute_next_nodes: drains execution_queue
RECURSIVE DispatchLoop(_, _, _, _)
DispatchLoop(g, reg, request_id, out) ==
    IF g.execution_queue = <<>> THEN [g |-> g, out |-> out]
    ELSE LET node_id == Head(g.execution_queue)
             next_node == [id |-> node_id, type |-> g.plan.type[node_id]]
             g1 == GetNextExecutableNode(g)
             agent_addr == GetAgent(reg, next_node.type)
         IN  IF agent_addr # None
             THEN DispatchLoop(g1, reg, request_id,
                               Append(out, AgentGoal(request_id, next_node, g1.step_counter,
                                                     GetInputsForNode(g1, node_id))))
             ELSE DispatchLoop(g1, reg, request_id, out)

\* execute_next_nodes
ExecuteNextNodes(ag, mem, reg, request_id) ==
    IF request_id \notin DOMAIN ag THEN Result(ag, mem, <<>>)
    ELSE LET d == DispatchLoop(ag[request_id], reg, request_id, <<>>)
             ag1 == Put(ag, request_id, d.g)
         IN  IF HasStalled(d.g)
             THEN LET c == CleanupGraph(ag1, mem, request_id, TRUE)
                  IN  Result(c.active_graphs, c.memory,
                             Append(d.out, ReplanRequest(request_id)))
             ELSE Result(ag1, mem, d.out)

\* start_new_graph: YAMLError is logged; any other exception of __init__
\* leaves the method before active_graphs is assigned
StartNewGraphResult(ag, mem, reg, request_id, plan) ==
    IF ~plan.yaml_ok \/ InitRaises(plan) THEN Result(ag, mem, <<>>)
    ELSE ExecuteNextNodes(Put(ag, request_id, GraphInit(plan)), mem, reg, request_id)

\* handle_step_completion raises after on_node_complete: IndexError on an
\* empty node_outputs[terminal], or Response(content=None) rejected
CompletionRaises(g1, mem) ==
    LET outs == g1.node_outputs[g1.plan.terminal]
    IN  \/ outs = <<>>
        \/ MemGet(mem, outs[1]) = None

\* handle_step_completion
HandleStepCompletionResult(ag, mem, reg, request_id, node_id, impressions) ==
    IF request_id \notin DOMAIN ag THEN Result(ag, mem, <<>>)
    ELSE LET g1 == OnNodeComplete(ag[request_id], node_id, impressions)
             ag1 == Put(ag, request_id, g1)
         IN  IF IsComplete(g1)
             THEN IF CompletionRaises(g1, mem) THEN Result(ag1, mem, <<>>)
                  ELSE LET final_answer_key == g1.node_outputs[g1.plan.terminal][1]
                           final_answer == MemGet(mem, final_answer_key)
                           c == CleanupGraph(ag1, mem, request_id, FALSE)
                       IN  Result(c.active_graphs, c.memory,
                                  <<Response(request_id, final_answer)>>)
             ELSE ExecuteNextNodes(ag1, mem, reg, request_id)

\* handle_failure
HandleFailureResult(ag, mem, request_id) ==
    IF request_id \in DOMAIN ag
    THEN LET c == CleanupGraph(ag, mem, request_id, TRUE)
         IN  Result(c.active_graphs, c.memory, <<>>)
    ELSE Result(ag, mem, <<>>)

----------------------------------------------------------------------------
(* Delivery of what a handler sent, and the history variables *)

GoalsIn(out) == {i \in DOMAIN out : out[i].kind = "AgentGoal"}
ResponsesIn(out) == {i \in DOMAIN out : out[i].kind = "Response"}
ReplansIn(out) == {i \in DOMAIN out : out[i].kind = "ReplanRequest"}

GoalNodes(out) == {out[i].node_id : i \in GoalsIn(out)}

GoalSteps(out) == {<<out[i].node_id, out[i].step_id>> : i \in GoalsIn(out)}

Range(seq) == {seq[i] : i \in DOMAIN seq}

\* the nodes the while-loop of execute_next_nodes dequeues: all of the queue
Drained(g) == g.execution_queue

RECURSIVE AddResponses(_, _)
AddResponses(bag, out) ==
    IF out = <<>> THEN bag
    ELSE AddResponses(IF Head(out).kind = "Response" THEN bag (+) SetToBag({Head(out)}) ELSE bag,
                      Tail(out))

RECURSIVE AddGoals(_, _)
AddGoals(bag, out) ==
    IF out = <<>> THEN bag
    ELSE AddGoals(IF Head(out).kind = "AgentGoal" THEN bag (+) SetToBag({Head(out)}) ELSE bag,
                  Tail(out))

\* the orchestrator returned res: its messages leave, its state is stored
Emit(res, request_id) ==
    /\ active_graphs' = res.active_graphs
    /\ memory' = res.memory
    /\ outbox' = res.out
    /\ goals' = AddGoals(goals, res.out)
    /\ responses' = AddResponses(responses, res.out)
    /\ replans' = [replans EXCEPT ![request_id] = @ + Cardinality(ReplansIn(res.out))]

----------------------------------------------------------------------------
(* The crawler's URL processor: Crawler.process_url in                     *)
(* webcrawler/app/crawler.py, CrawlingLedger in data/crawling_ledger.py,   *)
(* Ledger (Redis) in data/ledger.py, the vector store behind memory.       *)
(* Fetch workers may run in one process or in several processes sharing    *)
(* the ledger, so every ledger or vector-store call is one step.  A call   *)
(* made with fail = TRUE raises (LedgerError, connection error).           *)

Workers == {"w1", "w2"}
Urls == {"u1", "u2"}
Chunks == {"c1", "c2"}

\* the texts a page may show, as the list split_text returns
Texts == {<<"c1">>, <<"c1", "c2">>}

\* what _rate_limited_fetch and try_extract_text_from_html deliver: no
\* response or an empty body, an empty text, or a text
FetchResults ==
    {[error |-> e, text |-> <<>>] : e \in {"fetch_failed", "empty_content"}}
    \cup {[error |-> None, text |-> t] : t \in Texts}

\* _hash: sha256 hexdigest, taken to be collision free
Hash(value) == <<"sha256", value>>

\* {self._hash(chunk) for chunk in chunks}
NewChunks(text) == {Hash(text[i]) : i \in DOMAIN text}

ChunkHashes == {Hash(c) : c \in Chunks}

\* f"chunk_{chunk_hash}"
DocId(chunk_hash) == <<"chunk_", chunk_hash>>

\* str(e) of an exception raised by a ledger or vector-store call
LedgerErrorText == "ledger error"

\* no chunk hash
NoChunk == <<>>

\* the locals of one process_url call
Locals(url) ==
    [pc |-> "idle", url |-> url, claimed |-> FALSE,
     in_try |-> FALSE, error |-> None, text |-> <<>>,
     chunks_to_add |-> {}, chunks_to_remove |-> {},
     chunk_hash |-> NoChunk, i |-> 1, documents |-> {}, after_release |-> None]

CrawlIdle ==
    /\ crawl = [w \in Workers |-> Locals(None)]
    /\ crawls = 0
    /\ failures = 0
    /\ locks = {}
    /\ records = <<>>
    /\ chunk_refcount = <<>>
    /\ url_chunks = [u \in Urls |-> {}]
    /\ store = {}

\* the record of url holds the field
HasField(recs, url, field) == url \in DOMAIN recs /\ field \in DOMAIN recs[url]

\* hget(key, field) of a CrawlingLedger record
Field(recs, url, field) == IF HasField(recs, url, field) THEN recs[url][field] ELSE None

\* _update_status: hset(key, mapping=record) sets the given fields and
\* keeps the others; extra fields that are None are left out
UpdateStatus(recs, url, status, extra) ==
    LET old == IF url \in DOMAIN recs THEN recs[url] ELSE <<>>
        new == [f \in DOMAIN old \cup {"status"} \cup DOMAIN extra |->
                   IF f = "status" THEN status
                   ELSE IF f \in DOMAIN extra THEN extra[f]
                   ELSE old[f]]
    IN  [u \in DOMAIN recs \cup {url} |-> IF u = url THEN new ELSE recs[u]]

\* a freshness gate that lets every URL through
HasBeenCrawledNever(recs, url) == FALSE

\* has_been_crawled without freshness_window
HasBeenCrawledResult(recs, url) == Field(recs, url, "status") = "visited"

\* Ledger.acquire_lock that sets the key whether or not it exists
AcquireLockNoNx(lks, lock_key) == [acquired |-> TRUE, locks |-> lks \cup {lock_key}]

\* Ledger.acquire_lock: SET key "1" NX EX ttl
AcquireLock(lks, lock_key) ==
    IF lock_key \in lks THEN [acquired |-> FALSE, locks |-> lks]
    ELSE [acquired |-> TRUE, locks |-> lks \cup {lock_key}]

\* Ledger.release_lock: DEL key
ReleaseLock(lks, lock_key) == lks \ {lock_key}

\* Ledger.hincrby: the field counts as 0 when it does not exist
HIncrBy(h, field, amount) ==
    LET value == (IF field \in DOMAIN h THEN h[field] ELSE 0) + amount
    IN  [f \in DOMAIN h \cup {field} |-> IF f = field THEN value ELSE h[f]]

\* the next i at or after i whose chunk is in chunks_to_add ("continue")
RECURSIVE NextToAdd(_, _, _)
NextToAdd(text, chunks_to_add, i) ==
    IF i > Len(text) \/ Hash(text[i]) \in chunks_to_add THEN i
    ELSE NextToAdd(text, chunks_to_add, i + 1)

\* where control is after the "for chunk in chunks" loop: memory.upsert if
\* documents, else ledger.delete(url_key)
AfterAdd(l) ==
    [l EXCEPT !.pc = IF l.documents # {} THEN "upsert" ELSE "delete_url_key",
              !.chunks_to_add = {}, !.i = 1]

\* where control is at the head of "for chunk in chunks", at index i: at
\* the next chunk that reaches hincrby, or behind the loop
AtAdd(l, i) ==
    LET j == NextToAdd(l.text, l.chunks_to_add, i)
    IN  IF j <= Len(l.text) THEN [l EXCEPT !.pc = "add", !.i = j]
        ELSE AfterAdd(l)

\* where control is at the head of "for chunk_hash in chunks_to_remove"
AtRemove(l) ==
    IF l.chunks_to_remove # {} THEN [l EXCEPT !.pc = "remove", !.chunk_hash = NoChunk]
    ELSE AtAdd([l EXCEPT !.chunk_hash = NoChunk], 1)

\* a ledger or vector-store call may raise while the failures of the
\* behaviour are not used up
MayFail == IF failures < MaxFailures THEN BOOLEAN ELSE {FALSE}

SetLocal(w, l) ==
    /\ crawl' = [crawl EXCEPT ![w] = l]
    /\ UNCHANGED failures

At(w, pc) == crawl[w].pc = pc

\* process_url returns
Return(w) == SetLocal(w, Locals(None))

\* control enters mark_failed(url, error)
ToMarkFailed(w, error) ==
    [Locals(crawl[w].url) EXCEPT !.pc = "mark_failed", !.claimed = TRUE,
                                       !.in_try = crawl[w].in_try, !.error = error]

\* a ledger or vector-store call raised: inside the try block control goes
\* to the except branch, which calls mark_failed(url, str(e)); outside it
\* (mark_in_progress, or mark_failed in the except branch) the exception
\* leaves process_url and fetch_worker logs it
Raised(w) ==
    /\ failures' = failures + 1
    /\ crawl' = [crawl EXCEPT ![w] =
                    IF crawl[w].in_try
                    THEN [ToMarkFailed(w, LedgerErrorText) EXCEPT !.in_try = FALSE]
                    ELSE Locals(None)]

\* fetch_worker got url from the crawl queue and calls process_url(url).
\* Fetch workers are interchangeable and so are URLs nobody has crawled:
\* of two idle workers w1 takes the URL, and the first URL is u1
ProcessUrl(w, url) ==
    /\ At(w, "idle")
    /\ w = "w1" \/ ~At("w1", "idle")
    /\ crawls = 0 => url = "u1"
    /\ crawls < MaxCrawls
    /\ crawls' = crawls + 1
    /\ SetLocal(w, [Locals(url) EXCEPT !.pc = "has_been_crawled"])
    /\ UNCHANGED <<locks, records, chunk_refcount, url_chunks, store>>

\* if crawling_ledger.has_been_crawled(url): return []
HasBeenCrawled(w) ==
    /\ At(w, "has_been_crawled")
    /\ IF HasBeenCrawledResult(records, crawl[w].url)
       THEN Return(w)
       ELSE SetLocal(w, [crawl[w] EXCEPT !.pc = "claim_for_crawling"])
    /\ UNCHANGED <<crawls, locks, records, chunk_refcount, url_chunks, store>>

\* if not crawling_ledger.claim_for_crawling(url): return []
ClaimForCrawling(w) ==
    /\ At(w, "claim_for_crawling")
    /\ LET res == AcquireLock(locks, crawl[w].url)
       IN  /\ locks' = res.locks
           /\ IF res.acquired
              THEN SetLocal(w, [crawl[w] EXCEPT !.pc = "mark_in_progress",
                                                !.claimed = TRUE])
              ELSE Return(w)
    /\ UNCHANGED <<crawls, records, chunk_refcount, url_chunks, store>>

\* crawling_ledger.mark_in_progress(url), before the try block
MarkInProgress(w, fail) ==
    /\ At(w, "mark_in_progress")
    /\ IF fail
       THEN Raised(w) /\ UNCHANGED records
       ELSE /\ records' = UpdateStatus(records, crawl[w].url, "in_progress", <<>>)
            /\ SetLocal(w, [crawl[w] EXCEPT !.pc = "fetch", !.in_try = TRUE])
    /\ UNCHANGED <<crawls, locks, chunk_refcount, url_chunks, store>>

\* _rate_limited_fetch and the text extraction, up to the two early
\* mark_failed calls
Fetch(w, result) ==
    /\ At(w, "fetch")
    /\ IF result.error = None
       THEN SetLocal(w, [crawl[w] EXCEPT !.pc = "get_content_hash", !.text = result.text])
       ELSE SetLocal(w, ToMarkFailed(w, result.error))
    /\ UNCHANGED <<crawls, locks, records, chunk_refcount, url_chunks, store>>

\* a comparison of the hashes that never finds them equal
SameContentNever(recs, url, text) == FALSE

\* previous_hash == full_hash, with previous_hash = get_content_hash(url)
\* and full_hash = _hash(text)
SameContent(recs, url, text) ==
    /\ HasField(recs, url, "content_hash")
    /\ recs[url].content_hash = Hash(text)

\* previous_hash = get_content_hash(url); if previous_hash == full_hash:
\* mark_visited and return
GetContentHash(w, fail) ==
    /\ At(w, "get_content_hash")
    /\ IF fail THEN Raised(w)
       ELSE IF SameContent(records, crawl[w].url, crawl[w].text)
       THEN SetLocal(w, [crawl[w] EXCEPT !.pc = "mark_visited", !.after_release = "return"])
       ELSE SetLocal(w, [crawl[w] EXCEPT !.pc = "smembers"])
    /\ UNCHANGED <<crawls, locks, records, chunk_refcount, url_chunks, store>>

\* old_chunks = ledger.smembers(url_key); the two set differences
Smembers(w, fail) ==
    /\ At(w, "smembers")
    /\ IF fail THEN Raised(w)
       ELSE LET old_chunks == url_chunks[crawl[w].url]
                new_chunks == NewChunks(crawl[w].text)
            IN  SetLocal(w, AtRemove([crawl[w] EXCEPT
                                        !.chunks_to_add = new_chunks \ old_chunks,
                                        !.chunks_to_remove = old_chunks \ new_chunks]))
    /\ UNCHANGED <<crawls, locks, records, chunk_refcount, url_chunks, store>>

\* one pass of "for chunk_hash in chunks_to_remove", up to
\* "if refcount <= 0": refcount = hincrby(REDIS_CHUNK_REFCOUNT, chunk_hash, -1)
RemoveChunk(w, fail) ==
    /\ At(w, "remove")
    /\ IF fail THEN Raised(w) /\ UNCHANGED chunk_refcount
       ELSE \E chunk_hash \in crawl[w].chunks_to_remove :
               LET h == HIncrBy(chunk_refcount, chunk_hash, 0 - 1)
                   refcount == h[chunk_hash]
                   l == [crawl[w] EXCEPT !.chunks_to_remove = @ \ {chunk_hash}]
               IN  /\ chunk_refcount' = h
                   /\ SetLocal(w, IF refcount <= 0
                                  THEN [l EXCEPT !.pc = "memory_delete",
                                                 !.chunk_hash = chunk_hash]
                                  ELSE AtRemove(l))
    /\ UNCHANGED <<crawls, locks, records, url_chunks, store>>

\* memory.delete(ids=[f"chunk_{chunk_hash}"])
MemoryDelete(w, fail) ==
    /\ At(w, "memory_delete")
    /\ IF fail THEN Raised(w) /\ UNCHANGED store
       ELSE /\ store' = store \ {DocId(crawl[w].chunk_hash)}
            /\ SetLocal(w, [crawl[w] EXCEPT !.pc = "hdel"])
    /\ UNCHANGED <<crawls, locks, records, chunk_refcount, url_chunks>>

\* ledger.hdel(REDIS_CHUNK_REFCOUNT, chunk_hash): Ledger.hdel takes
\* (namespace, key, *fields), so this is HDEL on the key
\* "crawler:chunk_refcount:<chunk_hash>" with no field.  No field of the
\* refcount hash is deleted; the client library either returns or raises
\* the server's arity error, which Ledger.hdel does not catch
Hdel(w, raises) ==
    /\ At(w, "hdel")
    /\ IF raises
       THEN SetLocal(w, [ToMarkFailed(w, LedgerErrorText) EXCEPT !.in_try = FALSE])
       ELSE SetLocal(w, AtRemove(crawl[w]))
    /\ UNCHANGED <<crawls, locks, records, chunk_refcount, url_chunks, store>>

\* one pass of "for chunk in chunks" that reaches
\* refcount = hincrby(REDIS_CHUNK_REFCOUNT, chunk_hash, 1)
AddChunk(w, fail) ==
    /\ At(w, "add")
    /\ IF fail THEN Raised(w) /\ UNCHANGED chunk_refcount
       ELSE LET chunk_hash == Hash(crawl[w].text[crawl[w].i])
                h == HIncrBy(chunk_refcount, chunk_hash, 1)
                refcount == h[chunk_hash]
                l == [crawl[w] EXCEPT !.documents = IF refcount = 1
                                                    THEN @ \cup {DocId(chunk_hash)}
                                                    ELSE @]
            IN  /\ chunk_refcount' = h
                /\ SetLocal(w, AtAdd(l, crawl[w].i + 1))
    /\ UNCHANGED <<crawls, locks, records, url_chunks, store>>

\* if documents: memory.upsert(...)
Upsert(w, fail) ==
    /\ At(w, "upsert")
    /\ IF fail THEN Raised(w) /\ UNCHANGED store
       ELSE /\ store' = store \cup crawl[w].documents
            /\ SetLocal(w, [crawl[w] EXCEPT !.pc = "delete_url_key", !.documents = {}])
    /\ UNCHANGED <<crawls, locks, records, chunk_refcount, url_chunks>>

\* ledger.delete(url_key)
DeleteUrlKey(w, fail) ==
    /\ At(w, "delete_url_key")
    /\ IF fail THEN Raised(w) /\ UNCHANGED url_chunks
       ELSE /\ url_chunks' = [url_chunks EXCEPT ![crawl[w].url] = {}]
            /\ SetLocal(w, [crawl[w] EXCEPT !.pc = "sadd"])
    /\ UNCHANGED <<crawls, locks, records, chunk_refcount, store>>

\* if new_chunks: ledger.sadd(url_key, *list(new_chunks)); every text has a
\* chunk
Sadd(w, fail) ==
    /\ At(w, "sadd")
    /\ IF fail THEN Raised(w) /\ UNCHANGED url_chunks
       ELSE /\ url_chunks' = [url_chunks EXCEPT ![crawl[w].url] = @ \cup NewChunks(crawl[w].text)]
            /\ SetLocal(w, [crawl[w] EXCEPT !.pc = "mark_visited", !.after_release = "links"])
    /\ UNCHANGED <<crawls, locks, records, chunk_refcount, store>>

\* mark_visited, first half: _update_status(VISITED, content_hash)
MarkVisited(w, fail) ==
    /\ At(w, "mark_visited")
    /\ IF fail THEN Raised(w) /\ UNCHANGED records
       ELSE /\ records' = UpdateStatus(records, crawl[w].url, "visited",
                                       [content_hash |-> Hash(crawl[w].text)])
            /\ SetLocal(w, [crawl[w] EXCEPT !.pc = "release_lock", !.text = <<>>])
    /\ UNCHANGED <<crawls, locks, chunk_refcount, url_chunks, store>>

\* mark_failed, first half: _update_status(FAILED, error)
MarkFailed(w, fail) ==
    /\ At(w, "mark_failed")
    /\ IF fail THEN Raised(w) /\ UNCHANGED records
       ELSE /\ records' = UpdateStatus(records, crawl[w].url, "failed",
                                       [error |-> crawl[w].error])
            /\ SetLocal(w, [crawl[w] EXCEPT !.pc = "release_lock", !.after_release = "return"])
    /\ UNCHANGED <<crawls, locks, chunk_refcount, url_chunks, store>>

\* second half of mark_visited / mark_failed: release_lock(url); after the
\* mark_visited of a changed page the discovered links follow
ReleaseLockStep(w, fail) ==
    /\ At(w, "release_lock")
    /\ IF fail THEN Raised(w) /\ UNCHANGED locks
       ELSE /\ locks' = ReleaseLock(locks, crawl[w].url)
            /\ IF crawl[w].after_release = "links"
               THEN SetLocal(w, [crawl[w] EXCEPT !.pc = "links", !.after_release = None])
               ELSE Return(w)
    /\ UNCHANGED <<crawls, records, chunk_refcount, url_chunks, store>>

\* the loop over render_response.hrefs with ledger.sadd(REDIS_SEEN_URLS, ..),
\* still inside the try block
Links(w, fail) ==
    /\ At(w, "links")
    /\ IF fail THEN Raised(w)
       ELSE Return(w)
    /\ UNCHANGED <<crawls, locks, records, chunk_refcount, url_chunks, store>>

\* the workers that hold the claim of url
Holders(url) == {w \in Workers : crawl[w].claimed /\ crawl[w].url = url}

\* the 120 s TTL of a crawl_lock key runs out: while its holder awaits the
\* fetch (rate limiter, domain semaphore, rendering), or after the holder
\* has left process_url without releasing it
LockExpires(url) ==
    /\ url \in locks
    /\ \A w \in Holders(url) : At(w, "fetch")
    /\ locks' = locks \ {url}
    /\ UNCHANGED <<crawl, crawls, failures, records, chunk_refcount, url_chunks, store>>

----------------------------------------------------------------------------
(* The crawler's queues and lifecycle: Crawler.fetch_worker, enqueue_manager *)
(* and stop in webcrawler/app/crawler.py, POST /crawl in webcrawler/app/     *)
(* main.py.  crawl_queue is the Redis list (LPUSH at the head, BRPOP at the  *)
(* tail), discovery_queue the asyncio.Queue between the fetch workers and    *)
(* the enqueue manager.  process_url is taken here by what it hands back:    *)
(* the links of the page whose SADD into the seen-URL set reported a new     *)
(* member (a call that skipped, failed or raised hands back nothing).        *)

\* MAX_QUEUE_SIZE (1000 in crawler.py), scaled down
MAX_QUEUE_SIZE == 1

\* DISCOVERY_BUFFER_SIZE (5000 in crawler.py), scaled down
DISCOVERY_BUFFER_SIZE == 1

\* POST /crawl requests per behaviour
MaxPosts == 2

\* stop() calls per behaviour
MaxStops == 2

\* the normalized URLs the pages link to
QueueUrls == {"u1", "u2", "u3", "u4"}

\* the urls of a POST /crawl request
SeedLists == {<<"u1">>, <<"u1", "u2">>}

\* the normalized hrefs of a fetched page, in document order
Hrefs == {<<>>, <<"u2", "u1">>, <<"u3">>, <<"u4">>}

\* the sentinel stop() pushes into the crawl queue
Shutdown == "shutdown"

RECURSIVE Lpush(_, _)
\* Ledger.lpush(namespace, *values): each value in turn goes to the head
Lpush(queue, values) ==
    IF values = <<>> THEN queue
    ELSE Lpush(<<Head(values)>> \o queue, Tail(values))

\* asyncio.Queue.put is possible without waiting
CanPut == Len(discovery_queue) < DISCOVERY_BUFFER_SIZE

RECURSIVE NewLinks(_, _)
\* the links loop of process_url: a link is kept iff its SADD reported a new member
NewLinks(seen, hrefs) ==
    IF hrefs = <<>> THEN <<>>
    ELSE IF Head(hrefs) \in seen
         THEN NewLinks(seen, Tail(hrefs))
         ELSE <<Head(hrefs)>> \o NewLinks(seen \cup {Head(hrefs)}, Tail(hrefs))

FetchLocals(pc, url, links) == [pc |-> pc, url |-> url, links |-> links]

QueueIdle ==
    /\ crawl_queue = <<>>
    /\ discovery_queue = <<>>
    /\ seen_urls = {}
    /\ shutdown = FALSE
    /\ fetch = [w \in Workers |-> FetchLocals("while", None, <<>>)]
    /\ manager = [pc |-> "get", url |-> None]
    /\ stopper = [pc |-> "running", i |-> 0, stops |-> 0]
    /\ seeded = {}
    /\ admitted = [url \in QueueUrls |-> 0]
    /\ posts = 0

SetFetch(w, locals) == fetch' = [fetch EXCEPT ![w] = locals]

\* POST /crawl: the urls go into the crawl queue as they are
PostCrawl(urls) ==
    /\ posts < MaxPosts
    /\ stopper.pc = "running"
    /\ crawl_queue' = Lpush(crawl_queue, urls)
    /\ seeded' = seeded \cup Range(urls)
    /\ posts' = posts + 1
    /\ UNCHANGED <<discovery_queue, seen_urls, shutdown, fetch, manager, stopper, admitted>>

\* fetch_worker: the test of the while loop
FetchWhile(w) ==
    /\ fetch[w].pc = "while"
    /\ SetFetch(w, FetchLocals(IF shutdown THEN "exited" ELSE "brpop", None, <<>>))
    /\ UNCHANGED <<crawl_queue, discovery_queue, seen_urls, shutdown, manager, stopper,
                   seeded, admitted, posts>>

\* fetch_worker: brpop with its timeout, and the branch on what it returned
Brpop(w) ==
    /\ fetch[w].pc = "brpop"
    /\ IF crawl_queue = <<>>
       THEN /\ SetFetch(w, FetchLocals("while", None, <<>>))
            /\ UNCHANGED crawl_queue
       ELSE LET url == crawl_queue[Len(crawl_queue)]
            IN  /\ crawl_queue' = SubSeq(crawl_queue, 1, Len(crawl_queue) - 1)
                /\ SetFetch(w, IF url = Shutdown
                               THEN FetchLocals("exited", None, <<>>)
                               ELSE FetchLocals("process_url", url, <<>>))
    /\ UNCHANGED <<discovery_queue, seen_urls, shutdown, manager, stopper,
                   seeded, admitted, posts>>

\* fetch_worker: process_url(url) and the links it hands back
ProcessUrlLinks(w, hrefs) ==
    /\ fetch[w].pc = "process_url"
    /\ LET new_links == NewLinks(seen_urls, hrefs)
       IN  /\ seen_urls' = seen_urls \cup Range(hrefs)
           /\ SetFetch(w, IF new_links = <<>>
                          THEN FetchLocals("while", None, <<>>)
                          ELSE FetchLocals("put", fetch[w].url, new_links))
    /\ UNCHANGED <<crawl_queue, discovery_queue, shutdown, manager, stopper,
                   seeded, admitted, posts>>

\* fetch_worker: await discovery_queue.put(link)
DiscoveryPut(w) ==
    /\ fetch[w].pc = "put"
    /\ CanPut
    /\ discovery_queue' = Append(discovery_queue, Head(fetch[w].links))
    /\ SetFetch(w, IF Tail(fetch[w].links) = <<>>
                   THEN FetchLocals("while", None, <<>>)
                   ELSE FetchLocals("put", fetch[w].url, Tail(fetch[w].links)))
    /\ UNCHANGED <<crawl_queue, seen_urls, shutdown, manager, stopper,
                   seeded, admitted, posts>>

\* enqueue_manager: await discovery_queue.get()
ManagerGet ==
    /\ manager.pc = "get"
    /\ discovery_queue # <<>>
    /\ discovery_queue' = Tail(discovery_queue)
    /\ manager' = IF Head(discovery_queue) = None
                  THEN [pc |-> "exited", url |-> None]
                  ELSE [pc |-> "backpressure", url |-> Head(discovery_queue)]
    /\ UNCHANGED <<crawl_queue, seen_urls, shutdown, fetch, stopper,
                   seeded, admitted, posts>>

\* the backpressure test of enqueue_manager lets the url through
Admits(queue) == Len(queue) < MAX_QUEUE_SIZE

\* enqueue_manager: the backpressure loop is over, lpush(CRAWL_QUEUE, url)
ManagerLpush ==
    /\ manager.pc = "backpressure"
    /\ Admits(crawl_queue)
    /\ crawl_queue' = Lpush(crawl_queue, <<manager.url>>)
    /\ admitted' = [admitted EXCEPT ![manager.url] = @ + 1]
    /\ manager' = [pc |-> "get", url |-> None]
    /\ UNCHANGED <<discovery_queue, seen_urls, shutdown, fetch, stopper, seeded, posts>>

\* stop: _shutdown = True
Stop ==
    /\ stopper.pc = "running"
    /\ stopper.stops < MaxStops
    /\ shutdown' = TRUE
    /\ stopper' = [pc |-> "lpush", i |-> Cardinality(Workers), stops |-> stopper.stops + 1]
    /\ UNCHANGED <<crawl_queue, discovery_queue, seen_urls, fetch, manager,
                   seeded, admitted, posts>>

\* stop: one lpush(CRAWL_QUEUE, "shutdown") of the loop over fetch_tasks
StopLpush ==
    /\ stopper.pc = "lpush"
    /\ crawl_queue' = Lpush(crawl_queue, <<Shutdown>>)
    /\ stopper' = IF stopper.i = 1 THEN [stopper EXCEPT !.pc = "gather", !.i = 0]
                                   ELSE [stopper EXCEPT !.i = @ - 1]
    /\ UNCHANGED <<discovery_queue, seen_urls, shutdown, fetch, manager,
                   seeded, admitted, posts>>

\* stop: await asyncio.gather(*fetch_tasks) is over
StopGather ==
    /\ stopper.pc = "gather"
    /\ \A w \in Workers : fetch[w].pc = "exited"
    /\ stopper' = [stopper EXCEPT !.pc = "put"]
    /\ UNCHANGED <<crawl_queue, discovery_queue, seen_urls, shutdown, fetch, manager,
                   seeded, admitted, posts>>

\* stop: await discovery_queue.put(None)
StopPut ==
    /\ stopper.pc = "put"
    /\ CanPut
    /\ discovery_queue' = Append(discovery_queue, None)
    /\ stopper' = [stopper EXCEPT !.pc = "await_enqueue"]
    /\ UNCHANGED <<crawl_queue, seen_urls, shutdown, fetch, manager,
                   seeded, admitted, posts>>

\* stop: await enqueue_task is over, stop returns
StopReturn ==
    /\ stopper.pc = "await_enqueue"
    /\ manager.pc = "exited"
    /\ stopper' = [stopper EXCEPT !.pc = "returned"]
    /\ UNCHANGED <<crawl_queue, discovery_queue, seen_urls, shutdown, fetch, manager,
                   seeded, admitted, posts>>

\* start after a stop: new fetch_worker tasks and a new enqueue_manager task;
\* _shutdown is left as stop() set it
Start ==
    /\ stopper.pc = "returned"
    /\ fetch' = [w \in Workers |-> FetchLocals("while", None, <<>>)]
    /\ manager' = [pc |-> "get", url |-> None]
    /\ stopper' = [stopper EXCEPT !.pc = "running"]
    /\ UNCHANGED <<crawl_queue, discovery_queue, seen_urls, shutdown,
                   seeded, admitted, posts>>

----------------------------------------------------------------------------
(* The per-domain rate limiter: Crawler._rate_limited_fetch in             *)
(* webcrawler/app/crawler.py, for the fetch workers of one process and the *)
(* URLs of one domain.  Time is counted in ticks; a fetch attempt takes at *)
(* least one tick and as long as it likes, a sleep may end late.           *)

\* ticks of the clock per second
TicksPerSecond == 2

\* the clock stops here
MaxTime == 12

\* calls of _rate_limited_fetch per behaviour
MaxCalls == 3

DOMAIN_RATE_LIMIT == 1 * TicksPerSecond

MAX_RETRIES == 3

RETRY_BACKOFF_BASE == 2

RECURSIVE Pow(_, _)
Pow(base, exponent) == IF exponent = 0 THEN 1 ELSE base * Pow(base, exponent - 1)

\* asyncio.sleep(RETRY_BACKOFF_BASE ** attempt), in ticks
Backoff(attempt) == Pow(RETRY_BACKOFF_BASE, attempt) * TicksPerSecond

\* no fetch of the domain has completed yet
Never == -1

RateLocals(pc, wake, attempt, started) ==
    [pc |-> pc, wake |-> wake, attempt |-> attempt, started |-> started]

RateIdleLocals == RateLocals("idle", 0, 0, 0)

\* time.time() is far from the 0.0 that last_request_time starts with
RateIdle ==
    /\ now = DOMAIN_RATE_LIMIT
    /\ last_request_time = 0
    /\ semaphore = 1
    /\ rate = [w \in Workers |-> RateIdleLocals]
    /\ last_completed = Never
    /\ calls = 0

SetRate(w, locals) == rate' = [rate EXCEPT ![w] = locals]

\* a fetch worker calls _rate_limited_fetch(url)
RateLimitedFetch(w) ==
    /\ rate[w].pc = "idle"
    /\ calls < MaxCalls
    /\ calls' = calls + 1
    /\ SetRate(w, RateLocals("acquire", 0, 0, 0))
    /\ UNCHANGED <<now, last_request_time, semaphore, last_completed>>

\* the time to sleep before the request: DOMAIN_RATE_LIMIT - elapsed, 0 if none
SleepFor(elapsed) == IF elapsed < DOMAIN_RATE_LIMIT THEN DOMAIN_RATE_LIMIT - elapsed ELSE 0

\* async with domain_semaphores[domain], up to the sleep or the first attempt
Acquire(w) ==
    /\ rate[w].pc = "acquire"
    /\ semaphore > 0
    /\ semaphore' = semaphore - 1
    /\ LET elapsed == now - last_request_time
       IN  IF SleepFor(elapsed) > 0
           THEN /\ SetRate(w, RateLocals("sleep", now + SleepFor(elapsed), 0, 0))
                /\ UNCHANGED last_request_time
           ELSE /\ last_request_time' = now
                /\ SetRate(w, RateLocals("fetching", 0, 0, now))
    /\ UNCHANGED <<now, last_completed, calls>>

\* the sleep is over: last_request_time = time.time(), first attempt
Wake(w) ==
    /\ rate[w].pc = "sleep"
    /\ now >= rate[w].wake
    /\ last_request_time' = now
    /\ SetRate(w, RateLocals("fetching", 0, 0, now))
    /\ UNCHANGED <<now, semaphore, last_completed, calls>>

\* render_page_deep(url) returns or raises
Complete(w, raised) ==
    /\ rate[w].pc = "fetching"
    /\ now > rate[w].started
    /\ last_completed' = now
    /\ IF raised /\ rate[w].attempt < MAX_RETRIES - 1
       THEN /\ SetRate(w, RateLocals("backoff", now + Backoff(rate[w].attempt),
                                     rate[w].attempt, 0))
            /\ UNCHANGED semaphore
       ELSE /\ SetRate(w, RateIdleLocals)
            /\ semaphore' = semaphore + 1
    /\ UNCHANGED <<now, last_request_time, calls>>

\* the backoff sleep is over: next attempt
Retry(w) ==
    /\ rate[w].pc = "backoff"
    /\ now >= rate[w].wake
    /\ SetRate(w, RateLocals("fetching", 0, rate[w].attempt + 1, now))
    /\ UNCHANGED <<now, last_request_time, semaphore, last_completed, calls>>

\* time passes
Tick ==
    /\ now < MaxTime
    /\ now' = now + 1
    /\ UNCHANGED <<last_request_time, semaphore, rate, last_completed, calls>>

----------------------------------------------------------------------------
(* The chat server: submit_query, forward_to_bureau and handle_result in   *)
(* webapp/servers/chat.py.  Every handler runs under state_lock, so each   *)
(* is one step.  A text is a sequence of characters, "CR" and "LF" being   *)
(* carriage return and line feed.                                          *)

\* POST /api/result requests per behaviour
MaxCallbacks == 3

\* the request ids uuid4 hands out, and the ones callbacks may carry
ChatIds == {"r1", "r2"}

\* ResultRequest.text
ResultTexts == {<<"a">>, <<"a", "CR", "LF">>}

\* ResultRequest.type
ResultTypes == {-2, -1, 0, 1}

\* req["result"] = None
NullResult == <<None>>

RECURSIVE ReplaceCrLf(_)
\* text.replace("\r\n", "\n")
ReplaceCrLf(text) ==
    IF text = <<>> THEN <<>>
    ELSE IF Len(text) >= 2 /\ text[1] = "CR" /\ text[2] = "LF"
         THEN <<"LF">> \o ReplaceCrLf(SubSeq(text, 3, Len(text)))
         ELSE <<text[1]>> \o ReplaceCrLf(Tail(text))

ChatIdle ==
    /\ pending_requests = <<>>
    /\ forwarding = {}
    /\ callbacks = 0

\* POST /api/query: a new entry, and the task that forwards the query
SubmitQuery(request_id) ==
    /\ request_id \notin DOMAIN pending_requests
    /\ request_id = "r1" \/ "r1" \in DOMAIN pending_requests
    /\ pending_requests' = pending_requests @@
                           (request_id :> [status |-> "pending", result |-> <<>>])
    /\ forwarding' = forwarding \cup {request_id}
    /\ UNCHANGED callbacks

\* forward_to_bureau ends: the POST went through, or httpx.RequestError
ForwardToBureau(request_id, failed) ==
    /\ request_id \in forwarding
    /\ forwarding' = forwarding \ {request_id}
    /\ pending_requests' =
          IF failed
          THEN [pending_requests EXCEPT
                   ![request_id] = [status |-> "failed", result |-> NullResult]]
          ELSE pending_requests
    /\ UNCHANGED callbacks

\* the status handle_result leaves behind
StatusAfter(status, type) ==
    IF type = -1 THEN "done"
    ELSE IF type >= 0 THEN "pending" ELSE status

\* POST /api/result
HandleResult(request_id, text, type) ==
    /\ callbacks < MaxCallbacks
    /\ callbacks' = callbacks + 1
    /\ IF request_id \notin DOMAIN pending_requests
       THEN UNCHANGED pending_requests
       ELSE LET req == pending_requests[request_id]
                result == IF req.result = NullResult THEN <<>> ELSE req.result
            IN  pending_requests' =
                   [pending_requests EXCEPT
                       ![request_id] = [status |-> StatusAfter(req.status, type),
                                        result |-> result \o ReplaceCrLf(text)]]
    /\ UNCHANGED forwarding

----------------------------------------------------------------------------
(* The request queue of a worker: BaseAgent.queued_handler, enqueue_request *)
(* and process_request_queue in src/agents/base.py.  The agent framework    *)
(* calls the interval handler process_request_queue from one task, which    *)
(* awaits the call before it sleeps for the period; message handlers run    *)
(* whenever a goal arrives, also while a queued goal is being executed.     *)

\* the goals delivered to the agent
QueuedGoals == {"g1", "g2", "g3"}

DrainLocals(pc, msg) == [pc |-> pc, msg |-> msg]

BaseIdle ==
    /\ request_queue = <<>>
    /\ drain = DrainLocals("sleep", None)
    /\ running = {}
    /\ submitted = <<>>
    /\ executed = <<>>

\* LIFO instead of the FIFO of asyncio.Queue
QueueGetNewest(queue) ==
    [msg |-> queue[Len(queue)], rest |-> SubSeq(queue, 1, Len(queue) - 1)]

\* asyncio.Queue.get on a queue that is not empty
QueueGet(queue) ==
    [msg |-> Head(queue), rest |-> Tail(queue)]

\* the wrapper queued_handler returns: enqueue_request(ctx, sender, msg, func)
Wrapper(msg) ==
    /\ msg \notin Range(submitted)
    /\ request_queue' = Append(request_queue, msg)
    /\ submitted' = Append(submitted, msg)
    /\ UNCHANGED <<drain, running, executed>>

\* the period is over: process_request_queue is called
Interval ==
    /\ drain.pc = "sleep"
    /\ drain' = DrainLocals("while", None)
    /\ UNCHANGED <<request_queue, running, submitted, executed>>

\* process_request_queue: the test of the loop, the get, the call of func
While ==
    /\ drain.pc = "while"
    /\ IF request_queue = <<>>
       THEN /\ drain' = DrainLocals("sleep", None)
            /\ UNCHANGED <<request_queue, running>>
       ELSE /\ drain' = DrainLocals("func", QueueGet(request_queue).msg)
            /\ request_queue' = QueueGet(request_queue).rest
            /\ running' = running \cup {QueueGet(request_queue).msg}
    /\ UNCHANGED <<submitted, executed>>

\* process_request_queue: func returns or raises an Exception, task_done
FuncEnds(raised) ==
    /\ drain.pc = "func"
    /\ running' = running \ {drain.msg}
    /\ executed' = Append(executed, [msg |-> drain.msg, raised |-> raised])
    /\ drain' = DrainLocals("while", None)
    /\ UNCHANGED <<request_queue, submitted>>

----------------------------------------------------------------------------
(* GatewayAgent.process_query_queue and POST /submit: agents/gateway.py,    *)
(* gateway_http.py.  The HTTP server runs in a thread of its own, so a      *)
(* submit may fall between any two steps of the interval handler.           *)

MaxSubmits == 3

SubmitIds == {"q1", "q2"}

\* UserQuery(text=req.text, request_id=req.request_id)
UserQueryMsg(request_id) == [request_id |-> request_id, text |-> QueryText]

GatewayIdle ==
    gateway = [query_queue |-> <<>>, queries |-> <<>>, conductor |-> FALSE,
               pc |-> "idle", sent |-> <<>>, submits |-> <<>>]

\* POST /submit: queue.put(UserQuery(...))
Submit(request_id) ==
    /\ Len(gateway.submits) < MaxSubmits
    /\ gateway' = [gateway EXCEPT !.query_queue = Append(@, UserQueryMsg(request_id)),
                                  !.submits = Append(@, UserQueryMsg(request_id))]

\* the conductor's register_on_startup: agent_registry.register("conductor", ...)
RegisterConductor ==
    /\ ~gateway.conductor
    /\ gateway' = [gateway EXCEPT !.conductor = TRUE]

\* the interval handler process_query_queue is started
ProcessQueryQueue ==
    /\ gateway.pc = "idle"
    /\ gateway' = [gateway EXCEPT !.pc = "while"]

\* one pass of its while loop: leave when the queue is empty, else take the
\* oldest message, remember its text and send it to the conductor if
\* get_agent("conductor") returns an address
QueryWhile ==
    /\ gateway.pc = "while"
    /\ IF gateway.query_queue = <<>>
       THEN gateway' = [gateway EXCEPT !.pc = "idle"]
       ELSE LET msg == Head(gateway.query_queue)
            IN  gateway' = [gateway EXCEPT
                               !.query_queue = Tail(@),
                               !.queries = MemSet(@, msg.request_id, msg.text),
                               !.sent = IF gateway.conductor THEN Append(@, msg) ELSE @]

----------------------------------------------------------------------------
(* ArchitectAgent._condense_context and the chunk loop of process_synthesis *)
(* (agents/architect.py).  Texts are sequences of characters.  An LLM       *)
(* response is its raw text together with what _safe_parse_json finds       *)
(* under "condensed_text" (empty: not JSON, not a dict, no such key, "").   *)

\* the threshold in characters, scaled down
CONTEXT_THRESHOLD == 4

MAX_CONDENSE_ATTEMPTS == 4

\* MIN_SHRINK_RATIO = 0.85, in percent
MIN_SHRINK_RATIO == 85

Rep(c, n) == [i \in 1..n |-> c]

\* "\n\n"
Separator == <<"\n", "\n">>

\* contexts _condense_context is called with
Contexts == {Rep("x", n) : n \in 0..9}

\* what the LLM may answer: nothing (also a failed or timed out call, which
\* _safe_llm_call turns into ""), plain text that is shorter, hardly shorter,
\* as long or longer, JSON with the key, JSON without it
LlmResponses ==
    {[raw |-> Rep("s", n), condensed_text |-> <<>>] : n \in {0, 1, 4, 5, 9}}
    \cup {[raw |-> Rep("j", 7), condensed_text |-> Rep("k", 2)],
          [raw |-> Rep("j", 6), condensed_text |-> <<>>]}

ChunkLists ==
    {<<>>,
     <<Rep("a", 1)>>,
     <<Rep("a", 1), Rep("b", 2)>>,
     <<Rep("a", 1), Rep("a", 1), Rep("c", 5)>>,
     <<Rep("c", 5), Rep("b", 2)>>,
     <<Rep("b", 2), Rep("a", 1), Rep("b", 2), Rep("c", 5)>>}

\* text[:CONTEXT_THRESHOLD] left out
HardTruncateNot(text) == text

\* _hard_truncate: text[:CONTEXT_THRESHOLD]
HardTruncate(text) ==
    IF Len(text) > CONTEXT_THRESHOLD THEN SubSeq(text, 1, CONTEXT_THRESHOLD) ELSE text

ArchitectIdle ==
    architect = [pc |-> "start", caller |-> None, chunks |-> <<>>, i |-> 1,
                 seen_chunks |-> {}, running_context |-> <<>>, failed |-> {},
                 current |-> <<>>, attempt |-> 0, llm_calls |-> 0, returned |-> <<>>]

\* _condense_context(query, context) is entered
CondenseEnter(a, caller, context) ==
    [a EXCEPT !.pc = "while", !.caller = caller, !.current = context,
              !.attempt = 0, !.llm_calls = 0, !.returned = <<>>]

\* _condense_context returns text to its caller: the test, the chunk loop
\* (candidate, truncation, next chunk) or the final guard
CondenseReturn(a, text) ==
    IF a.caller = "chunk"
    THEN LET candidate == text \o Separator \o a.chunks[a.i]
         IN  [a EXCEPT !.pc = "for", !.returned = text, !.i = @ + 1,
                       !.running_context =
                           IF Len(candidate) > CONTEXT_THRESHOLD
                           THEN SubSeq(candidate, 1, CONTEXT_THRESHOLD) ELSE candidate]
    ELSE IF a.caller = "final"
    THEN [a EXCEPT !.pc = "done", !.returned = text, !.running_context = text]
    ELSE [a EXCEPT !.pc = "done", !.returned = text]

\* a call of _condense_context by itself
CondenseContext(context) ==
    /\ architect.pc = "start"
    /\ architect' = CondenseEnter(architect, "test", context)

\* process_synthesis reaches its chunk loop
ProcessSynthesis(chunks) ==
    /\ architect.pc = "start"
    /\ architect' = [architect EXCEPT !.pc = "for", !.chunks = chunks]

\* one pass of the chunk loop; raised: the body fails after the chunk was
\* recorded as seen
ForChunk(raised) ==
    /\ architect.pc = "for"
    /\ IF architect.i > Len(architect.chunks)
       THEN architect' = [architect EXCEPT !.pc = "final"]
       ELSE LET chunk == architect.chunks[architect.i]
                candidate == architect.running_context \o Separator \o chunk
            IN  IF chunk \in architect.seen_chunks
                THEN architect' = [architect EXCEPT !.i = @ + 1]
                ELSE IF raised
                THEN architect' = [architect EXCEPT !.i = @ + 1,
                                                    !.seen_chunks = @ \cup {chunk},
                                                    !.failed = @ \cup {architect.i}]
                ELSE IF Len(candidate) > CONTEXT_THRESHOLD
                THEN architect' = CondenseEnter([architect EXCEPT !.seen_chunks = @ \cup {chunk}],
                                        "chunk", architect.running_context)
                ELSE architect' = [architect EXCEPT !.i = @ + 1,
                                                    !.seen_chunks = @ \cup {chunk},
                                                    !.running_context = candidate]

\* the final guard of process_synthesis
FinalGuard ==
    /\ architect.pc = "final"
    /\ IF Len(architect.running_context) > CONTEXT_THRESHOLD
       THEN architect' = CondenseEnter(architect, "final", architect.running_context)
       ELSE architect' = [architect EXCEPT !.pc = "done"]

\* the test of the while loop of _condense_context and what follows the loop
CondenseWhile ==
    /\ architect.pc = "while"
    /\ IF /\ Len(architect.current) > CONTEXT_THRESHOLD
          /\ architect.attempt < MAX_CONDENSE_ATTEMPTS
       THEN architect' = [architect EXCEPT !.pc = "llm"]
       ELSE architect' = CondenseReturn(architect,
                                IF Len(architect.current) > CONTEXT_THRESHOLD
                                THEN HardTruncate(architect.current)
                                ELSE architect.current)

\* the body of the loop: the LLM call and the handling of its response;
\* raised: an exception inside the try block
CondenseAttempt(response, raised) ==
    /\ architect.pc = "llm"
    /\ LET a == [architect EXCEPT !.llm_calls = @ + 1]
           parsed == response.condensed_text
           text == IF parsed = <<>> THEN response.raw ELSE parsed
           condensed == IF Len(text) > CONTEXT_THRESHOLD
                        THEN SubSeq(text, 1, CONTEXT_THRESHOLD) ELSE text
       IN  IF raised \/ response.raw = <<>>
           THEN architect' = CondenseReturn(a, HardTruncate(a.current))
           ELSE IF 100 * Len(condensed) > MIN_SHRINK_RATIO * Len(a.current)
           THEN architect' = CondenseReturn(a, HardTruncate(condensed))
           ELSE architect' = [a EXCEPT !.pc = "while", !.current = condensed,
                                       !.attempt = @ + 1]

----------------------------------------------------------------------------
(* AgentRegistry (agent_registry.py).  _agents maps a type to a dict from   *)
(* address to status; a dict keeps its keys in insertion order, so it is a  *)
(* sequence of entries here.                                                *)

AgentTypes == {"scout", "synthesize"}

Addresses == {"agent1", "agent2"}

RegistryIdle == agent_registry = [agents |-> <<>>, again |-> {}]

\* self._agents[agent_type], the empty dict when the type is not a key
AgentsOf(reg, agent_type) == IF agent_type \in DOMAIN reg THEN reg[agent_type] ELSE <<>>

HasAddress(entries, address) == \E i \in DOMAIN entries : entries[i].address = address

\* d[address] = status that puts a key it already has at the end
DictSetMovesToEnd(entries, address, status) ==
    Append(SelectSeq(entries, LAMBDA e : e.address # address),
           [address |-> address, status |-> status])

\* d[address] = status: a new key goes to the end, a key that is there
\* keeps its place
DictSet(entries, address, status) ==
    IF HasAddress(entries, address)
    THEN [i \in DOMAIN entries |->
             IF entries[i].address = address
             THEN [address |-> address, status |-> status] ELSE entries[i]]
    ELSE Append(entries, [address |-> address, status |-> status])

\* register
AgentRegister(agent_type, address) ==
    LET entries == AgentsOf(agent_registry.agents, agent_type)
    IN  agent_registry' =
            [agents |-> MemSet(agent_registry.agents, agent_type,
                               DictSet(entries, address, "idle")),
             again |-> IF HasAddress(entries, address)
                       THEN agent_registry.again \cup {<<agent_type, address>>}
                       ELSE agent_registry.again]

\* lease_agent when an agent of the type is idle: the first idle one is busy
LeaseAgent(agent_type) ==
    LET entries == AgentsOf(agent_registry.agents, agent_type)
        idle == {i \in DOMAIN entries : entries[i].status = "idle"}
    IN  /\ idle # {}
        /\ LET first == CHOOSE i \in idle : \A j \in idle : i <= j
           IN  agent_registry' =
                   [agent_registry EXCEPT
                       !.agents = MemSet(@, agent_type,
                                         DictSet(entries, entries[first].address, "busy"))]

\* release_agent of a busy agent
ReleaseAgent(agent_type, address) ==
    LET entries == AgentsOf(agent_registry.agents, agent_type)
    IN  /\ \E i \in DOMAIN entries :
              entries[i].address = address /\ entries[i].status = "busy"
        /\ agent_registry' =
               [agent_registry EXCEPT
                   !.agents = MemSet(@, agent_type, DictSet(entries, address, "idle"))]

----------------------------------------------------------------------------
(* SessionLedger.create_session (data/session_ledger.py).  The callers are  *)
(* threads or processes that share the Redis server: each Redis command,    *)
(* and the MULTI/EXEC pipeline, is one step.                                *)

Callers == {"c1", "c2"}

SessionIds == {"s1", "s2"}

UserIds == {"alice", "bob"}

SessionIdle ==
    session_ledger =
        [hashes |-> <<>>,
         call |-> [c \in Callers |-> [pc |-> "idle", session_id |-> None, user_id |-> None]]]

\* create_session(user_id=..., session_id=...) is entered
CreateSession(c, session_id, user_id) ==
    /\ session_ledger.call[c].pc = "idle"
    /\ session_ledger' = [session_ledger EXCEPT
                             !.call[c] = [pc |-> "exists", session_id |-> session_id,
                                          user_id |-> user_id]]

\* if self.ledger.client.exists(key): raise LedgerError
Exists(c) ==
    LET call == session_ledger.call[c]
    IN  /\ call.pc = "exists"
        /\ session_ledger' = [session_ledger EXCEPT
                                 !.call[c].pc = IF call.session_id \in DOMAIN session_ledger.hashes
                                                THEN "raised" ELSE "pipeline"]

\* pipe.hset(key, mapping=...); pipe.expire(key, ttl); pipe.execute(); return
PipeExecute(c) ==
    LET call == session_ledger.call[c]
    IN  /\ call.pc = "pipeline"
        /\ session_ledger' = [session_ledger EXCEPT
                                 !.hashes = MemSet(@, call.session_id,
                                                   [status |-> "active",
                                                    user_id |-> call.user_id]),
                                 !.call[c].pc = "returned"]

----------------------------------------------------------------------------
(* Actions *)

InitOrchestrator ==
    /\ memory = <<>>
    /\ active_graphs = <<>>
    /\ registry = {"conductor", "scout", "compute"}
    /\ goals = EmptyBag
    /\ thoughts = EmptyBag
    /\ plan_goals = [r \in RequestIds |-> 0]
    /\ replans = [r \in RequestIds |-> 0]
    /\ planned = 0
    /\ outbox = <<>>
    /\ sent_nodes = [r \in RequestIds |-> {}]
    /\ done_nodes = [r \in RequestIds |-> {}]
    /\ finals = [r \in RequestIds |-> 0]
    /\ enqueued = [r \in RequestIds |-> {}]
    /\ dequeued = [r \in RequestIds |-> <<>>]
    /\ sent_steps = [r \in RequestIds |-> {}]
    /\ responses = EmptyBag
    /\ queries = <<>>
    /\ response_queue = <<>>
    /\ posted = <<>>
    /\ aborted = {}

\* the Compute worker has nothing to do
PotIdle ==
    /\ pot_msg = None
    /\ pot_env = None
    /\ pot_pc = "done"
    /\ pot_sent = <<>>

Init == InitOrchestrator /\ PotIdle /\ CrawlIdle /\ QueueIdle /\ RateIdle /\ ChatIdle /\ BaseIdle /\ GatewayIdle /\ ArchitectIdle /\ RegistryIdle /\ SessionIdle

\* BaseAgent.register_on_startup of a worker
Register(agent_type) ==
    /\ agent_type \notin registry
    /\ registry' = registry \cup {agent_type}
    /\ outbox' = <<>>
    /\ UNCHANGED <<memory, active_graphs, goals, thoughts, plan_goals, replans,
                   planned, sent_nodes, done_nodes, finals,
                   enqueued, dequeued, sent_steps>>
    /\ UNCHANGED <<responses, queries, response_queue, posted, aborted>>

\* POST /submit, then the conductor on the UserQuery: store the query and
\* send a PLAN goal to the planner
UserQuery(request_id) ==
    /\ planned < MaxPlans
    /\ planned' = planned + 1
    /\ memory' = MemSet(memory, QueryKey(request_id), QueryText)
    /\ plan_goals' = [plan_goals EXCEPT ![request_id] = @ + 1]
    /\ outbox' = <<>>
    /\ queries' = MemSet(queries, request_id, QueryText)
    /\ UNCHANGED <<active_graphs, registry, goals, thoughts, replans,
                   sent_nodes, done_nodes, finals, enqueued, dequeued, sent_steps>>
    /\ UNCHANGED <<responses, response_queue, posted, aborted>>

\* the conductor on a ReplanRequest: re-issue the PLAN goal
HandleReplanRequest(request_id) ==
    /\ replans[request_id] > 0
    /\ planned < MaxPlans
    /\ planned' = planned + 1
    /\ replans' = [replans EXCEPT ![request_id] = @ - 1]
    /\ plan_goals' = [plan_goals EXCEPT ![request_id] = @ + 1]
    /\ outbox' = <<>>
    /\ UNCHANGED <<memory, active_graphs, registry, goals, thoughts,
                   sent_nodes, done_nodes, finals, enqueued, dequeued, sent_steps>>
    /\ UNCHANGED <<responses, queries, response_queue, posted, aborted>>

\* the planner's PLAN thought reaches the conductor: start_new_graph
StartNewGraph(request_id, plan) ==
    /\ plan_goals[request_id] > 0
    /\ plan_goals' = [plan_goals EXCEPT ![request_id] = @ - 1]
    /\ LET res == StartNewGraphResult(active_graphs, memory, registry, request_id, plan)
           created == plan.yaml_ok /\ ~InitRaises(plan)
       IN  /\ Emit(res, request_id)
           /\ sent_nodes' = IF created THEN [sent_nodes EXCEPT ![request_id] = GoalNodes(res.out)]
                            ELSE sent_nodes
           /\ done_nodes' = IF created THEN [done_nodes EXCEPT ![request_id] = {}] ELSE done_nodes
           /\ finals' = IF created THEN [finals EXCEPT ![request_id] = 0] ELSE finals
           /\ enqueued' = IF created
                           THEN [enqueued EXCEPT ![request_id] = Range(GraphInit(plan).execution_queue)]
                           ELSE enqueued
           /\ dequeued' = IF created
                           THEN [dequeued EXCEPT ![request_id] = Drained(GraphInit(plan))]
                           ELSE dequeued
           /\ sent_steps' = IF created THEN [sent_steps EXCEPT ![request_id] = GoalSteps(res.out)]
                             ELSE sent_steps
    /\ UNCHANGED <<registry, thoughts, planned, queries, response_queue, posted, aborted>>

\* a RESOLVED thought reaches the conductor: handle_step_completion
DeliverResolved(t) ==
    /\ BagIn(t, thoughts)
    /\ t.type = "Resolved"
    /\ thoughts' = thoughts (-) SetToBag({t})
    /\ LET r == t.request_id
           had == r \in DOMAIN active_graphs
           res == HandleStepCompletionResult(active_graphs, memory, registry, r,
                                             t.node_id, t.impressions)
       IN  /\ Emit(res, r)
           /\ sent_nodes' = [sent_nodes EXCEPT ![r] = @ \cup GoalNodes(res.out)]
           /\ done_nodes' = IF had THEN [done_nodes EXCEPT ![r] = @ \cup {t.node_id}]
                            ELSE done_nodes
           /\ finals' = [finals EXCEPT ![r] = @ + Cardinality(ResponsesIn(res.out))]
           /\ sent_steps' = [sent_steps EXCEPT ![r] = @ \cup GoalSteps(res.out)]
           /\ IF had
              THEN LET g1 == OnNodeComplete(active_graphs[r], t.node_id, t.impressions)
                   IN  /\ enqueued' = [enqueued EXCEPT ![r] = @ \cup Range(g1.execution_queue)]
                       /\ dequeued' = [dequeued EXCEPT ![r] =
                                          IF IsComplete(g1) THEN @ ELSE @ \o Drained(g1)]
              ELSE UNCHANGED <<enqueued, dequeued>>
    /\ UNCHANGED <<registry, plan_goals, planned, queries, response_queue, posted, aborted>>

\* a FAILED thought reaches the conductor: handle_failure
DeliverFailed(t) ==
    /\ BagIn(t, thoughts)
    /\ t.type = "Failed"
    /\ thoughts' = thoughts (-) SetToBag({t})
    /\ LET r == t.request_id
       IN  /\ Emit(HandleFailureResult(active_graphs, memory, r), r)
           /\ aborted' = IF r \in DOMAIN active_graphs THEN aborted \cup {r} ELSE aborted
    /\ UNCHANGED <<registry, plan_goals, planned, sent_nodes, done_nodes, finals,
                   enqueued, dequeued, sent_steps>>
    /\ UNCHANGED <<queries, response_queue, posted>>

----------------------------------------------------------------------------
(* Workers: one AgentGoal{TASK} is taken from the network and answered *)

Insufficient == "Insufficient information gathered."

Reply(goal, t) ==
    /\ BagIn(goal, goals)
    /\ goals' = goals (-) SetToBag({goal})
    /\ thoughts' = thoughts (+) SetToBag({t})
    /\ outbox' = <<>>
    /\ UNCHANGED <<active_graphs, registry, plan_goals, replans, planned,
                   sent_nodes, done_nodes, finals, enqueued, dequeued, sent_steps>>
    /\ UNCHANGED <<responses, queries, response_queue, posted, aborted>>

\* ScoutAgent.process_search_and_filter: FAILED without a query or on any
\* exception of the search, else one impression
ScoutProcess(goal, ok) ==
    /\ goal.to = "scout"
    /\ LET r == goal.request_id
           output_key == ImpressionKey(r, goal.step_id, "filtered_web_results")
           success == ok /\ MemGet(memory, QueryKey(r)) # None
       IN  /\ memory' = IF success THEN MemSet(memory, output_key, "chunks") ELSE memory
           /\ Reply(goal, IF success
                          THEN Thought(r, "Resolved", goal.node_id, <<output_key>>)
                          ELSE Thought(r, "Failed", goal.node_id, <<>>))

\* ArchitectAgent.process_synthesis: always RESOLVED with one impression;
\* the text is the default unless inputs, query and documents were there
ArchitectProcess(goal, ok) ==
    /\ goal.to = "synthesize"
    /\ LET r == goal.request_id
           output_key == ImpressionKey(r, goal.step_id, "final_answer")
           success == /\ ok
                      /\ goal.content # <<>>
                      /\ MemGet(memory, goal.content[1]) # None
                      /\ MemGet(memory, QueryKey(r)) # None
       IN  /\ memory' = MemSet(memory, output_key,
                               IF success THEN "synthesized" ELSE Insufficient)
           /\ Reply(goal, Thought(r, "Resolved", goal.node_id, <<output_key>>))

\* ProgramOfThoughtAgent.process_code_execution: RESOLVED on exit code 0,
\* else FAILED; the Thought carries no impressions
ComputeProcess(goal, ok) ==
    /\ goal.to = "compute"
    /\ memory' = memory
    /\ Reply(goal, Thought(goal.request_id, IF ok THEN "Resolved" ELSE "Failed",
                           goal.node_id, <<>>))

----------------------------------------------------------------------------
(* The Compute worker on one AgentGoal, with everything the child process  *)
(* and the operating system may do: ProgramOfThoughtAgent in agents/pot.py *)

Programs == {"[]", "print(6*7)"}

\* metadata.get("timeout", "5"): absent, a number, not a number
Timeouts == {None, "5", "soon"}

PotGoals ==
    [request_id : RequestIds, type : {"task", "plan"}, content : Programs,
     timeout : Timeouts]

\* tempfile: NamedTemporaryFile / f.write; run: subprocess.run returned,
\* timed out or raised; remove: os.remove in the finally clause
PotEnvs ==
    [tempfile : {"ok", "raises"}, run : {"exit", "timeout", "raises"},
     returncode : {0, 1, 0 - 9}, stdout : {"", "42"}, stderr : {"", "Traceback"},
     remove : {"ok", "raises"}]

\* str(result.returncode)
ToStr(n) == IF n = 0 THEN "0" ELSE IF n < 0 THEN "-" \o Str(0 - n) ELSE Str(n)

\* int(...) of the timeout metadata raises ValueError
TimeoutRaises(msg) == msg.timeout \notin {None, "5"}

ComputeThought(request_id, type, content, exit_code) ==
    [request_id |-> request_id, type |-> type, content |-> content,
     impressions |-> <<>>,
     metadata |-> [exit_code |-> exit_code, goal_type |-> "AgentGoalType.TASK"]]

\* the try blocks of process_code_execution and the Thought sent after them
ComputeReply(msg, env) ==
    LET \* the inner try / except
        inner == IF env.run = "exit"
                 THEN [type |-> IF env.returncode = 0 THEN "Resolved" ELSE "Failed",
                       content |-> IF env.returncode = 0 THEN env.stdout ELSE env.stderr,
                       exit_code |-> ToStr(env.returncode)]
                 ELSE IF env.run = "timeout"
                 THEN [type |-> "Failed", content |-> "Execution timed out.",
                       exit_code |-> "-1"]
                 ELSE [type |-> "Failed", content |-> "error", exit_code |-> "-1"]
        \* the outer except: creating the file failed, or os.remove raised
        \* in the finally clause; response_type keeps its value
        outer == IF env.tempfile = "raises"
                 THEN [type |-> "Failed", content |-> "System error", exit_code |-> "-1"]
                 ELSE IF env.remove = "raises"
                 THEN [inner EXCEPT !.content = "System error", !.exit_code = "-1"]
                 ELSE inner
    IN  ComputeThought(msg.request_id, outer.type, outer.content, outer.exit_code)

\* process_code_execution: nothing for a goal that is not TASK, nothing when
\* int() raised before the try, else exactly the reply
ProcessCodeExecution ==
    /\ pot_pc = "waiting"
    /\ pot_pc' = "done"
    /\ pot_sent' = IF pot_msg.type # "task" \/ TimeoutRaises(pot_msg)
                   THEN pot_sent
                   ELSE Append(pot_sent, ComputeReply(pot_msg, pot_env))
    /\ UNCHANGED <<pot_msg, pot_env>>

ComputeInit ==
    /\ InitOrchestrator
    /\ pot_msg \in PotGoals
    /\ pot_env \in PotEnvs
    /\ pot_pc = "waiting"
    /\ pot_sent = <<>>
    /\ CrawlIdle
    /\ QueueIdle
    /\ RateIdle
    /\ ChatIdle
    /\ BaseIdle
    /\ GatewayIdle
    /\ ArchitectIdle
    /\ RegistryIdle
    /\ SessionIdle

ComputeNext == ProcessCodeExecution /\ UNCHANGED <<orch_vars, crawl_vars, queue_vars, rate_vars, chat_vars, base_vars, gateway, architect, agent_registry, session_ledger>>

ComputeSpec == ComputeInit /\ [][ComputeNext]_vars

----------------------------------------------------------------------------
(* Gateway: GatewayAgent.handle_response and process_response_queue *)

DefaultQuery == "your question"

\* the LLM's answer to speaker_prompt / failure_prompt formatted with the job
Formatted(prompt, job) ==
    [prompt |-> prompt, query |-> job.original_query, data |-> job.synthesized_data]

NoText == [prompt |-> "none", query |-> "", data |-> ""]

\* handle_response: package the job; forget the query on a final Response
HandleResponse(msg) ==
    /\ BagIn(msg, responses)
    /\ responses' = responses (-) SetToBag({msg})
    /\ LET original_query == IF msg.request_id \in DOMAIN queries
                             THEN queries[msg.request_id] ELSE DefaultQuery
           response_job == [request_id |-> msg.request_id,
                            status |-> "success",
                            synthesized_data |-> msg.content,
                            original_query |-> original_query,
                            type |-> msg.type]
       IN  /\ response_queue' = Append(response_queue, response_job)
           /\ queries' = IF msg.request_id \in DOMAIN queries /\ msg.type = 0 - 1
                         THEN [r \in DOMAIN queries \ {msg.request_id} |-> queries[r]]
                         ELSE queries
    /\ outbox' = <<>>
    /\ UNCHANGED <<memory, active_graphs, registry, goals, thoughts, plan_goals, replans,
                   planned, sent_nodes, done_nodes, finals, enqueued, dequeued, sent_steps,
                   posted, aborted>>

\* process_response_queue: pop the first job, format it, POST it; a
\* RequestError of the POST (ok = FALSE) is logged and the job is gone
ProcessResponseQueue(ok) ==
    /\ response_queue # <<>>
    /\ LET job == Head(response_queue)
           final_text == IF job.synthesized_data # ""
                         THEN IF job.status = "success"
                              THEN Formatted("speaker", job)
                              ELSE Formatted("failure", job)
                         ELSE NoText
       IN  /\ response_queue' = Tail(response_queue)
           /\ posted' = IF ok
                        THEN Append(posted, [text |-> final_text,
                                             request_id |-> job.request_id,
                                             type |-> job.type])
                        ELSE posted
    /\ outbox' = <<>>
    /\ UNCHANGED <<memory, active_graphs, registry, goals, thoughts, plan_goals, replans,
                   planned, sent_nodes, done_nodes, finals, enqueued, dequeued, sent_steps,
                   responses, queries, aborted>>

----------------------------------------------------------------------------
(* The chat server on its own *)

\* what a step of the chat server leaves alone
not_chat == <<orch_vars, pot_vars, crawl_vars, queue_vars, rate_vars, base_vars, gateway, architect, agent_registry, session_ledger>>

ChatInit ==
    /\ InitOrchestrator
    /\ PotIdle
    /\ CrawlIdle
    /\ QueueIdle
    /\ RateIdle
    /\ ChatIdle
    /\ BaseIdle
    /\ GatewayIdle
    /\ ArchitectIdle
    /\ RegistryIdle
    /\ SessionIdle

ChatNext ==
    \/ \E request_id \in ChatIds : SubmitQuery(request_id) /\ UNCHANGED not_chat
    \/ \E request_id \in ChatIds, failed \in BOOLEAN :
          ForwardToBureau(request_id, failed) /\ UNCHANGED not_chat
    \/ \E request_id \in ChatIds, text \in ResultTexts, type \in ResultTypes :
          HandleResult(request_id, text, type) /\ UNCHANGED not_chat

ChatSpec == ChatInit /\ [][ChatNext]_vars

----------------------------------------------------------------------------
(* The request queue of a worker on its own *)

\* what a step of the request queue leaves alone
not_base == <<orch_vars, pot_vars, crawl_vars, queue_vars, rate_vars, chat_vars, gateway, architect, agent_registry, session_ledger>>

BaseInit ==
    /\ InitOrchestrator
    /\ PotIdle
    /\ CrawlIdle
    /\ QueueIdle
    /\ RateIdle
    /\ ChatIdle
    /\ BaseIdle
    /\ GatewayIdle
    /\ ArchitectIdle
    /\ RegistryIdle
    /\ SessionIdle

\* the steps of the task that runs the interval handler
DrainStep ==
    \/ Interval /\ UNCHANGED not_base
    \/ While /\ UNCHANGED not_base
    \/ \E raised \in BOOLEAN : FuncEnds(raised) /\ UNCHANGED not_base

BaseNext ==
    \/ \E msg \in QueuedGoals : Wrapper(msg) /\ UNCHANGED not_base
    \/ Interval /\ UNCHANGED not_base
    \/ While /\ UNCHANGED not_base
    \/ \E raised \in BOOLEAN : FuncEnds(raised) /\ UNCHANGED not_base

BaseSpec == BaseInit /\ [][BaseNext]_vars

\* the event loop keeps running the interval task
BaseFairSpec == BaseSpec /\ WF_vars(DrainStep)

----------------------------------------------------------------------------
(* The rate limiter on its own *)

\* what a step of the rate limiter leaves alone
not_rate == <<orch_vars, pot_vars, crawl_vars, queue_vars, chat_vars, base_vars, gateway, architect, agent_registry, session_ledger>>

RateInit ==
    /\ InitOrchestrator
    /\ PotIdle
    /\ CrawlIdle
    /\ QueueIdle
    /\ RateIdle
    /\ ChatIdle
    /\ BaseIdle
    /\ GatewayIdle
    /\ ArchitectIdle
    /\ RegistryIdle
    /\ SessionIdle

RateNext ==
    \/ \E w \in Workers : RateLimitedFetch(w) /\ UNCHANGED not_rate
    \/ \E w \in Workers : Acquire(w) /\ UNCHANGED not_rate
    \/ \E w \in Workers : Wake(w) /\ UNCHANGED not_rate
    \/ \E w \in Workers, raised \in BOOLEAN : Complete(w, raised) /\ UNCHANGED not_rate
    \/ \E w \in Workers : Retry(w) /\ UNCHANGED not_rate
    \/ Tick /\ UNCHANGED not_rate

RateSpec == RateInit /\ [][RateNext]_vars

----------------------------------------------------------------------------
(* The crawler on its own: fetch workers calling process_url *)

not_crawl == <<orch_vars, pot_vars, queue_vars, rate_vars, chat_vars, base_vars, gateway, architect, agent_registry, session_ledger>>

CrawlInit ==
    /\ InitOrchestrator
    /\ PotIdle
    /\ CrawlIdle
    /\ QueueIdle
    /\ RateIdle
    /\ ChatIdle
    /\ BaseIdle
    /\ GatewayIdle
    /\ ArchitectIdle
    /\ RegistryIdle
    /\ SessionIdle

CrawlNext ==
    \/ (\E w \in Workers, url \in Urls : ProcessUrl(w, url)) /\ UNCHANGED not_crawl
    \/ (\E w \in Workers : HasBeenCrawled(w)) /\ UNCHANGED not_crawl
    \/ (\E w \in Workers : ClaimForCrawling(w)) /\ UNCHANGED not_crawl
    \/ (\E w \in Workers, fail \in MayFail : MarkInProgress(w, fail)) /\ UNCHANGED not_crawl
    \/ (\E w \in Workers, result \in FetchResults : Fetch(w, result)) /\ UNCHANGED not_crawl
    \/ (\E w \in Workers, fail \in MayFail : GetContentHash(w, fail)) /\ UNCHANGED not_crawl
    \/ (\E w \in Workers, fail \in MayFail : Smembers(w, fail)) /\ UNCHANGED not_crawl
    \/ (\E w \in Workers, fail \in MayFail : RemoveChunk(w, fail)) /\ UNCHANGED not_crawl
    \/ (\E w \in Workers, fail \in MayFail : MemoryDelete(w, fail)) /\ UNCHANGED not_crawl
    \/ (\E w \in Workers, raises \in BOOLEAN : Hdel(w, raises)) /\ UNCHANGED not_crawl
    \/ (\E w \in Workers, fail \in MayFail : AddChunk(w, fail)) /\ UNCHANGED not_crawl
    \/ (\E w \in Workers, fail \in MayFail : Upsert(w, fail)) /\ UNCHANGED not_crawl
    \/ (\E w \in Workers, fail \in MayFail : DeleteUrlKey(w, fail)) /\ UNCHANGED not_crawl
    \/ (\E w \in Workers, fail \in MayFail : Sadd(w, fail)) /\ UNCHANGED not_crawl
    \/ (\E w \in Workers, fail \in MayFail : MarkVisited(w, fail)) /\ UNCHANGED not_crawl
    \/ (\E w \in Workers, fail \in MayFail : MarkFailed(w, fail)) /\ UNCHANGED not_crawl
    \/ (\E w \in Workers, fail \in MayFail : ReleaseLockStep(w, fail)) /\ UNCHANGED not_crawl
    \/ (\E w \in Workers, fail \in MayFail : Links(w, fail)) /\ UNCHANGED not_crawl
    \/ (\E url \in Urls : LockExpires(url)) /\ UNCHANGED not_crawl

CrawlSpec == CrawlInit /\ [][CrawlNext]_vars

----------------------------------------------------------------------------
(* The crawler's queues on their own: fetch workers, enqueue manager, stop *)

\* what a step of the crawler's queues and tasks leaves alone
not_queue == <<orch_vars, pot_vars, crawl_vars, rate_vars, chat_vars, base_vars, gateway, architect, agent_registry, session_ledger>>

QueueInit ==
    /\ InitOrchestrator
    /\ PotIdle
    /\ CrawlIdle
    /\ QueueIdle
    /\ RateIdle
    /\ ChatIdle
    /\ BaseIdle
    /\ GatewayIdle
    /\ ArchitectIdle
    /\ RegistryIdle
    /\ SessionIdle

\* the steps of a fetch worker
FetchStep(w) ==
    \/ FetchWhile(w) /\ UNCHANGED not_queue
    \/ Brpop(w) /\ UNCHANGED not_queue
    \/ \E hrefs \in Hrefs : ProcessUrlLinks(w, hrefs) /\ UNCHANGED not_queue
    \/ DiscoveryPut(w) /\ UNCHANGED not_queue

\* the steps of the enqueue manager
ManagerStep ==
    \/ ManagerGet /\ UNCHANGED not_queue
    \/ ManagerLpush /\ UNCHANGED not_queue

\* the steps of stop() once it has been called
StopStep ==
    \/ StopLpush /\ UNCHANGED not_queue
    \/ StopGather /\ UNCHANGED not_queue
    \/ StopPut /\ UNCHANGED not_queue
    \/ StopReturn /\ UNCHANGED not_queue

QueueNext ==
    \/ \E urls \in SeedLists : PostCrawl(urls) /\ UNCHANGED not_queue
    \/ Stop /\ UNCHANGED not_queue
    \/ Start /\ UNCHANGED not_queue
    \/ \E w \in Workers : FetchWhile(w) /\ UNCHANGED not_queue
    \/ \E w \in Workers : Brpop(w) /\ UNCHANGED not_queue
    \/ \E w \in Workers, hrefs \in Hrefs : ProcessUrlLinks(w, hrefs) /\ UNCHANGED not_queue
    \/ \E w \in Workers : DiscoveryPut(w) /\ UNCHANGED not_queue
    \/ ManagerGet /\ UNCHANGED not_queue
    \/ ManagerLpush /\ UNCHANGED not_queue
    \/ StopLpush /\ UNCHANGED not_queue
    \/ StopGather /\ UNCHANGED not_queue
    \/ StopPut /\ UNCHANGED not_queue
    \/ StopReturn /\ UNCHANGED not_queue

QueueSpec == QueueInit /\ [][QueueNext]_vars

\* every asyncio task and the Redis server keep running
QueueFairness ==
    /\ \A w \in Workers : WF_vars(FetchStep(w))
    /\ WF_vars(ManagerStep)
    /\ WF_vars(StopStep)

QueueFairSpec == QueueSpec /\ QueueFairness

----------------------------------------------------------------------------
(* The gateway's query queue taken on its own *)

not_gateway == <<orch_vars, pot_vars, crawl_vars, queue_vars, rate_vars, chat_vars, base_vars, architect, agent_registry, session_ledger>>

GatewayInit ==
    /\ InitOrchestrator
    /\ PotIdle
    /\ CrawlIdle
    /\ QueueIdle
    /\ RateIdle
    /\ ChatIdle
    /\ BaseIdle
    /\ GatewayIdle
    /\ ArchitectIdle
    /\ RegistryIdle
    /\ SessionIdle

GatewayNext ==
    \/ (\E request_id \in SubmitIds : Submit(request_id)) /\ UNCHANGED not_gateway
    \/ RegisterConductor /\ UNCHANGED not_gateway
    \/ ProcessQueryQueue /\ UNCHANGED not_gateway
    \/ QueryWhile /\ UNCHANGED not_gateway

GatewaySpec == GatewayInit /\ [][GatewayNext]_vars

----------------------------------------------------------------------------
(* The architect's condensing taken on its own *)

not_architect == <<orch_vars, pot_vars, crawl_vars, queue_vars, rate_vars, chat_vars, base_vars, gateway, agent_registry, session_ledger>>

ArchitectInit ==
    /\ InitOrchestrator
    /\ PotIdle
    /\ CrawlIdle
    /\ QueueIdle
    /\ RateIdle
    /\ ChatIdle
    /\ BaseIdle
    /\ GatewayIdle
    /\ ArchitectIdle
    /\ RegistryIdle
    /\ SessionIdle

ArchitectNext ==
    \/ (\E context \in Contexts : CondenseContext(context)) /\ UNCHANGED not_architect
    \/ (\E chunks \in ChunkLists : ProcessSynthesis(chunks)) /\ UNCHANGED not_architect
    \/ (\E raised \in BOOLEAN : ForChunk(raised)) /\ UNCHANGED not_architect
    \/ FinalGuard /\ UNCHANGED not_architect
    \/ CondenseWhile /\ UNCHANGED not_architect
    \/ (\E response \in LlmResponses, raised \in BOOLEAN : CondenseAttempt(response, raised))
          /\ UNCHANGED not_architect

ArchitectSpec == ArchitectInit /\ [][ArchitectNext]_vars

\* the coroutine is not suspended for ever: the awaited LLM call ends (with a
\* response, an exception or the timeout of _safe_llm_call)
ArchitectFairSpec == ArchitectSpec /\ WF_vars(ArchitectNext)

----------------------------------------------------------------------------
(* The agent registry taken on its own *)

not_registry == <<orch_vars, pot_vars, crawl_vars, queue_vars, rate_vars, chat_vars, base_vars, gateway, architect, session_ledger>>

RegistryInit ==
    /\ InitOrchestrator
    /\ PotIdle
    /\ CrawlIdle
    /\ QueueIdle
    /\ RateIdle
    /\ ChatIdle
    /\ BaseIdle
    /\ GatewayIdle
    /\ ArchitectIdle
    /\ RegistryIdle
    /\ SessionIdle

RegistryNext ==
    \/ (\E agent_type \in AgentTypes, address \in Addresses :
            AgentRegister(agent_type, address)) /\ UNCHANGED not_registry
    \/ (\E agent_type \in AgentTypes : LeaseAgent(agent_type)) /\ UNCHANGED not_registry
    \/ (\E agent_type \in AgentTypes, address \in Addresses :
            ReleaseAgent(agent_type, address)) /\ UNCHANGED not_registry

RegistrySpec == RegistryInit /\ [][RegistryNext]_vars

----------------------------------------------------------------------------
(* The session ledger taken on its own *)

not_session == <<orch_vars, pot_vars, crawl_vars, queue_vars, rate_vars, chat_vars, base_vars, gateway, architect, agent_registry>>

SessionInit ==
    /\ InitOrchestrator
    /\ PotIdle
    /\ CrawlIdle
    /\ QueueIdle
    /\ RateIdle
    /\ ChatIdle
    /\ BaseIdle
    /\ GatewayIdle
    /\ ArchitectIdle
    /\ RegistryIdle
    /\ SessionIdle

SessionNext ==
    \/ (\E c \in Callers, session_id \in SessionIds, user_id \in UserIds :
            CreateSession(c, session_id, user_id)) /\ UNCHANGED not_session
    \/ (\E c \in Callers : Exists(c)) /\ UNCHANGED not_session
    \/ (\E c \in Callers : PipeExecute(c)) /\ UNCHANGED not_session

SessionSpec == SessionInit /\ [][SessionNext]_vars

----------------------------------------------------------------------------

Next ==
    \/ (\E agent_type \in WorkerTypes : Register(agent_type)) /\ UNCHANGED not_orch
    \/ (\E request_id \in RequestIds : UserQuery(request_id)) /\ UNCHANGED not_orch
    \/ (\E request_id \in RequestIds : HandleReplanRequest(request_id))
          /\ UNCHANGED not_orch
    \/ (\E request_id \in RequestIds, plan \in Plans : StartNewGraph(request_id, plan))
          /\ UNCHANGED not_orch
    \/ (\E t \in BagToSet(thoughts) : DeliverResolved(t)) /\ UNCHANGED not_orch
    \/ (\E t \in BagToSet(thoughts) : DeliverFailed(t)) /\ UNCHANGED not_orch
    \/ (\E goal \in BagToSet(goals), ok \in BOOLEAN : ScoutProcess(goal, ok))
          /\ UNCHANGED not_orch
    \/ (\E goal \in BagToSet(goals), ok \in BOOLEAN : ArchitectProcess(goal, ok))
          /\ UNCHANGED not_orch
    \/ (\E goal \in BagToSet(goals), ok \in BOOLEAN : ComputeProcess(goal, ok))
          /\ UNCHANGED not_orch

\* conductor, orchestrator and workers; the Responses they send stay in flight
Spec == Init /\ [][Next]_vars

\* the same together with the gateway that receives the Responses
SystemNext ==
    \/ Next
    \/ (\E msg \in BagToSet(responses) : HandleResponse(msg)) /\ UNCHANGED not_orch
    \/ (\E ok \in BOOLEAN : ProcessResponseQueue(ok)) /\ UNCHANGED not_orch

\* the steps the running system takes by itself: every handler of a message
\* in flight, the workers, the gateway's interval handler, agent start-up
SystemStep ==
    /\ SystemNext
    /\ ~\E request_id \in RequestIds : UserQuery(request_id)

\* the system does not stop while a message is waiting to be handled; only
\* the arrival of user queries is not forced.  Every step consumes a message
\* or a bounded counter, so this is as strong as fairness of each handler.
Fairness == WF_vars(SystemStep)

FairSpec == Init /\ [][SystemNext]_vars /\ Fairness

----------------------------------------------------------------------------
(* Vocabulary of the properties *)

EdgeSet(plan) == {plan.edges[i] : i \in DOMAIN plan.edges}

\* b is reachable from a along at least one edge (paths of up to k+1 edges)
RECURSIVE Reaches(_, _, _, _)
Reaches(plan, a, b, k) ==
    \/ <<a, b>> \in EdgeSet(plan)
    \/ /\ k > 0
       /\ \E e \in EdgeSet(plan) : e[1] = a /\ Reaches(plan, e[2], b, k - 1)

\* a plan that parses to a DAG over its own nodes with an existing terminal
ValidPlan(plan) ==
    /\ plan.yaml_ok
    /\ plan.has_terminal
    /\ plan.terminal \in NodeSet(plan)
    /\ \A e \in EdgeSet(plan) : e[1] \in NodeSet(plan) /\ e[2] \in NodeSet(plan)
    /\ \A n \in NodeSet(plan) : ~Reaches(plan, n, n, Len(plan.nodes))

KeysOf(m, request_id) == {key \in DOMAIN m : StartsWith(key, request_id)}

\* the entries written for one request: its keys begin with "{request_id}:"
OwnedBy(m, request_id) ==
    [key \in {k \in DOMAIN m : StartsWith(k, request_id \o <<":">>)} |-> m[key]]

QueryKept(request_id) ==
    QueryKey(request_id) \in DOMAIN memory =>
        /\ QueryKey(request_id) \in DOMAIN memory'
        /\ memory'[QueryKey(request_id)] = memory[QueryKey(request_id)]

ReplanSentFor(out, request_id) ==
    \E i \in ReplansIn(out) : out[i].request_id = request_id

Contains(words, w) == \E i \in DOMAIN words : words[i] = w

ResolvedFor(request_id) ==
    {t \in BagToSet(thoughts) : t.request_id = request_id /\ t.type = "Resolved"}

FailedFor(request_id) ==
    {t \in BagToSet(thoughts) : t.request_id = request_id /\ t.type = "Failed"}

----------------------------------------------------------------------------
(* C1: for every edge (a,b) of an active graph's plan (a valid DAG), b has *)
(* been sent as an AgentGoal only if on_node_complete has run for a.       *)
C1_DispatchAfterPredecessors ==
    \A r \in DOMAIN active_graphs :
        ValidPlan(active_graphs[r].plan) =>
            \A e \in EdgeSet(active_graphs[r].plan) :
                e[2] \in sent_nodes[r] => e[1] \in done_nodes[r]

(* C2: a graph emits its final Response at most once, and once it has, the *)
(* graph is gone from active_graphs, so later thoughts find nothing.       *)
C2_FinalAtMostOnce ==
    \A r \in RequestIds :
        /\ finals[r] <= 1
        /\ finals[r] = 1 => r \notin DOMAIN active_graphs

\* a final Response was emitted and a RESOLVED thought for the same request
\* is still on its way
C2_Witness ==
    \E r \in RequestIds : finals[r] = 1 /\ ResolvedFor(r) # {}

(* C3: no graph is left active in the stalled state; a handler that found  *)
(* the stall sent a ReplanRequest whose reason contains "stalled" to the   *)
(* conductor, removed the graph and cleared every key of the request       *)
(* except the query key, whose value it kept.                              *)
C3_StallState ==
    /\ \A r \in DOMAIN active_graphs : ~HasStalled(active_graphs[r])
    /\ \A i \in ReplansIn(outbox) :
          LET r == outbox[i].request_id
          IN  /\ outbox[i].to = "conductor"
              /\ Contains(outbox[i].reason, "stalled")
              /\ r \notin DOMAIN active_graphs
              /\ KeysOf(memory, r) \subseteq {QueryKey(r)}

C3_StallReplans ==
    /\ []C3_StallState
    /\ [][\A r \in RequestIds : ReplanSentFor(outbox', r) => QueryKept(r)]_vars

\* a ReplanRequest has just been sent and the query is still stored
C3_Witness ==
    \E r \in RequestIds :
        /\ ReplanSentFor(outbox, r)
        /\ MemGet(memory, QueryKey(r)) = QueryText

(* C4: a graph whose plan is a valid DAG never stalls: neither starting it *)
(* nor any RESOLVED thought delivered to it sends a ReplanRequest.         *)
C4_NoStallOnValidPlan ==
    [][\A r \in RequestIds :
          (\/ \E plan \in Plans : ValidPlan(plan) /\ StartNewGraph(r, plan)
           \/ /\ r \in DOMAIN active_graphs
              /\ ValidPlan(active_graphs[r].plan)
              /\ \E t \in ResolvedFor(r) : DeliverResolved(t))
          => ~ReplanSentFor(outbox', r)]_vars

(* C5: a node of a (valid) graph is in the running set only if an         *)
(* AgentGoal was sent for it; a node whose type has no registered agent    *)
(* stays in execution_queue.                                               *)
C5_RunningOnlyIfSent ==
    \A r \in DOMAIN active_graphs :
        ValidPlan(active_graphs[r].plan) =>
            active_graphs[r].running_nodes \subseteq sent_nodes[r]

(* C6: every node of a (valid) graph that a RESOLVED thought has          *)
(* completed has a non-empty node_outputs entry, whatever the worker type. *)
C6_OutputsNonEmpty ==
    \A r \in DOMAIN active_graphs :
        ValidPlan(active_graphs[r].plan) =>
            \A n \in done_nodes[r] : active_graphs[r].node_outputs[n] # <<>>

(* C7: a plan that is cyclic, has no valid terminal or has an edge to or   *)
(* from an unknown id is rejected by start_new_graph: it never becomes an  *)
(* active graph, so none of its nodes is dispatched.                       *)
C7_InvalidPlanRejected ==
    \A r \in DOMAIN active_graphs : ValidPlan(active_graphs[r].plan)

(* C8: handle_failure on an active graph removes it, deletes every key of  *)
(* the request except the query key, whose value stays, and sends nothing; *)
(* a RESOLVED thought that then finds no graph changes neither the graphs  *)
(* nor SharedMemory and dispatches nothing.                                *)
C8_FailureAborts ==
    [][\A r \in RequestIds :
          /\ (r \in DOMAIN active_graphs /\ \E t \in FailedFor(r) : DeliverFailed(t))
                => /\ r \notin DOMAIN active_graphs'
                   /\ KeysOf(memory', r) \subseteq {QueryKey(r)}
                   /\ QueryKept(r)
                   /\ outbox' = <<>>
          /\ (r \notin DOMAIN active_graphs /\ \E t \in ResolvedFor(r) : DeliverResolved(t))
                => /\ UNCHANGED <<active_graphs, memory, goals, replans>>
                   /\ outbox' = <<>>]_vars

\* the only graph ever started for r has been aborted by handle_failure (it
\* sent goals, emitted no final Response and no ReplanRequest, and the one
\* PLAN goal issued so far was for it) and a RESOLVED thought answering one
\* of its goals is still on its way
C8_Witness ==
    \E r \in RequestIds :
        /\ planned = 1
        /\ plan_goals[r] = 0
        /\ r \notin DOMAIN active_graphs
        /\ sent_nodes[r] # {}
        /\ finals[r] = 0
        /\ replans[r] = 0
        /\ MemGet(memory, QueryKey(r)) = QueryText
        /\ ResolvedFor(r) # {}

(* C9: the RESOLVED thought that brings completed_nodes_count to |nodes|   *)
(* (of a valid plan) makes the orchestrator emit exactly Response{type=-1} with the value    *)
(* stored under node_outputs[terminal][0], remove the graph and leave no   *)
(* key of the request (the query key included) in SharedMemory.            *)
C9_CompletionStep ==
    [][\A r \in RequestIds :
          \A t \in ResolvedFor(r) :
              (/\ DeliverResolved(t)
               /\ r \in DOMAIN active_graphs
               /\ ValidPlan(active_graphs[r].plan)
               /\ IsComplete(OnNodeComplete(active_graphs[r], t.node_id, t.impressions)))
              => LET g1 == OnNodeComplete(active_graphs[r], t.node_id, t.impressions)
                     outs == g1.node_outputs[g1.plan.terminal]
                 IN  /\ outs # <<>>
                     /\ outs[1] \in DOMAIN memory
                     /\ outbox' = <<Response(r, memory[outs[1]])>>
                     /\ r \notin DOMAIN active_graphs'
                     /\ KeysOf(memory', r) = {}]_vars

(* C10: an orchestrator step for request r (start_new_graph,               *)
(* handle_step_completion, handle_failure, with the cleanup they do)       *)
(* leaves the SharedMemory entries and the graph of every other request    *)
(* unchanged, also when r is a prefix of the other request's id.           *)
OrchestratorStep(r) ==
    \/ \E plan \in Plans : StartNewGraph(r, plan)
    \/ \E t \in ResolvedFor(r) : DeliverResolved(t)
    \/ \E t \in FailedFor(r) : DeliverFailed(t)

C10_RequestsIndependent ==
    [][\A r \in RequestIds :
          OrchestratorStep(r) =>
              \A other \in RequestIds \ {r} :
                  /\ OwnedBy(memory', other) = OwnedBy(memory, other)
                  /\ (other \in DOMAIN active_graphs') = (other \in DOMAIN active_graphs)
                  /\ other \in DOMAIN active_graphs
                        => active_graphs'[other] = active_graphs[other]]_vars

(* C11: the input keys of every AgentGoal just sent are the concatenation  *)
(* of node_outputs[d] over the edges (d, node) in edge-declaration order,  *)
(* duplicates kept; a node without incoming edge receives the empty list.  *)
RECURSIVE ExpectedInputs(_, _, _)
ExpectedInputs(g, node_id, i) ==
    IF i > Len(g.plan.edges) THEN <<>>
    ELSE (IF g.plan.edges[i][2] = node_id THEN g.node_outputs[g.plan.edges[i][1]] ELSE <<>>)
         \o ExpectedInputs(g, node_id, i + 1)

C11_InputKeys ==
    \A i \in GoalsIn(outbox) :
        LET r == outbox[i].request_id
        IN  /\ r \in DOMAIN active_graphs
            /\ outbox[i].content = ExpectedInputs(active_graphs[r], outbox[i].node_id, 1)
            /\ (\A e \in EdgeSet(active_graphs[r].plan) : e[2] # outbox[i].node_id)
                  => outbox[i].content = <<>>

\* the fan-in node has just been sent the key of n1 (step 1) followed by the
\* key of n2 (step 2)
C11_Witness ==
    \E i \in GoalsIn(outbox) :
        LET r == outbox[i].request_id
        IN  /\ outbox[i].node_id = "n3"
            /\ r \in DOMAIN active_graphs
            /\ active_graphs[r].plan = PlanFanIn
            /\ outbox[i].content = <<ImpressionKey(r, "1", "filtered_web_results"),
                                     ImpressionKey(r, "2", "filtered_web_results")>>

\* a key delivered twice is handed on twice
C11_WitnessDuplicates ==
    \E i \in GoalsIn(outbox) :
        /\ Len(outbox[i].content) = 2
        /\ outbox[i].content[1] = outbox[i].content[2]

(* C12: in every (valid) active graph in_degree[n] >= 0 for every node n,  *)
(* and in_degree[n] = 0 exactly for the nodes that have been put into      *)
(* execution_queue, at construction or after a predecessor's completion.   *)
C12_InDegree ==
    \A r \in DOMAIN active_graphs :
        ValidPlan(active_graphs[r].plan) =>
            \A n \in NodeSet(active_graphs[r].plan) :
                /\ active_graphs[r].in_degree[n] >= 0
                /\ (active_graphs[r].in_degree[n] = 0) <=> (n \in enqueued[r])

(* C13: the AgentGoals of one graph carry pairwise different step ids, so  *)
(* the impression keys {request_id}:{step_id}:{name} of two different      *)
(* nodes of the graph never coincide.                                      *)
ImpressionNames == {"filtered_web_results", "final_answer"}

C13_StepIdsDistinct ==
    \A r \in RequestIds :
        \A p \in sent_steps[r], q \in sent_steps[r] :
            p[1] # q[1] =>
                /\ p[2] # q[2]
                /\ \A a \in ImpressionNames, b \in ImpressionNames :
                      ImpressionKey(r, p[2], a) # ImpressionKey(r, q[2], b)

\* all three nodes of the fan-in plan have been dispatched
C13_Witness ==
    \E r \in DOMAIN active_graphs :
        /\ active_graphs[r].plan = PlanFanIn
        /\ Cardinality(sent_steps[r]) = 3

(* C14: the running set holds only nodes that were dequeued from           *)
(* execution_queue, no node is dequeued (dispatched) twice in one graph,   *)
(* and no node is in execution_queue and in the running set at once.       *)
NoDuplicates(seq) == \A i \in DOMAIN seq, j \in DOMAIN seq : seq[i] = seq[j] => i = j

C14_QueueRunning ==
    \A r \in DOMAIN active_graphs :
        /\ active_graphs[r].running_nodes \subseteq Range(dequeued[r])
        /\ NoDuplicates(dequeued[r])
        /\ \A p \in sent_steps[r], q \in sent_steps[r] : p[1] = q[1] => p = q
        /\ Range(active_graphs[r].execution_queue) \cap active_graphs[r].running_nodes = {}

\* the fan-in node is running, dequeued once, while repeated thoughts of its
\* predecessors have taken its in_degree below zero
C14_Witness ==
    \E r \in DOMAIN active_graphs :
        /\ active_graphs[r].plan = PlanFanIn
        /\ "n3" \in active_graphs[r].running_nodes
        /\ active_graphs[r].in_degree["n3"] < 0

(* C15: a request whose graph handle_failure has removed is eventually     *)
(* answered: a result for its request_id is POSTed to the chat server.     *)
PostedIds == {posted[i].request_id : i \in DOMAIN posted}

C15_FailureNotified ==
    \A r \in RequestIds : (r \in aborted) ~> (r \in PostedIds)

(* C16: a Scout or Architect worker answers a TASK goal with exactly one   *)
(* Thought: RESOLVED with the impression keys it wrote when its work       *)
(* succeeded, FAILED when an error occurred (its work raised, the query is *)
(* missing, the input keys are missing or hold no documents).              *)
WorkError(goal, ok) ==
    \/ ~ok
    \/ MemGet(memory, QueryKey(goal.request_id)) = None
    \/ /\ goal.to = "synthesize"
       /\ \/ goal.content = <<>>
          \/ MemGet(memory, goal.content[1]) = None

C16_WorkerReplies ==
    [][\A goal \in BagToSet(goals), ok \in BOOLEAN :
          (ScoutProcess(goal, ok) \/ ArchitectProcess(goal, ok)) =>
              \E t \in BagToSet(thoughts') :
                  /\ thoughts' = thoughts (+) SetToBag({t})
                  /\ t.request_id = goal.request_id
                  /\ t.node_id = goal.node_id
                  /\ IF WorkError(goal, ok)
                     THEN t.type = "Failed"
                     ELSE /\ t.type = "Resolved"
                          /\ t.impressions # <<>>
                          /\ \A i \in DOMAIN t.impressions :
                                t.impressions[i] \in DOMAIN memory']_vars

(* C17: for a TASK goal the Compute worker sends exactly one Thought; it   *)
(* is RESOLVED with content = stdout exactly when the child exited with    *)
(* code 0 and FAILED otherwise; metadata.exit_code is the child's exit code *)
(* and "-1" after a timeout or a system error.                             *)
ChildExited == pot_env.tempfile = "ok" /\ pot_env.run = "exit"

SystemError ==
    \/ pot_env.tempfile = "raises"
    \/ pot_env.run = "raises"
    \/ pot_env.remove = "raises"

C17_ComputeReply ==
    (pot_pc = "done" /\ pot_msg.type = "task") =>
        /\ Len(pot_sent) = 1
        /\ LET t == pot_sent[1]
           IN  /\ IF ChildExited /\ pot_env.returncode = 0
                  THEN t.type = "Resolved" /\ t.content = pot_env.stdout
                  ELSE t.type = "Failed"
               /\ t.metadata.exit_code =
                     IF SystemError \/ pot_env.run = "timeout" THEN "-1"
                     ELSE ToStr(pot_env.returncode)

(* C18: claim_for_crawling returns True exactly when the URL's lock key    *)
(* does not exist, and then the key exists, so that of two calls on one    *)
(* unlocked URL the first returns True and the second False; the worker    *)
(* whose call returned False leaves process_url at once, before any fetch, *)
(* with the URL records, refcounts, chunk sets and vector store unchanged. *)
C18_ClaimExclusive ==
    [][\A w \in Workers : ClaimForCrawling(w) =>
          LET url == crawl[w].url
          IN  IF url \notin locks
              THEN /\ crawl'[w].claimed
                   /\ crawl'[w].pc = "mark_in_progress"
                   /\ url \in locks'
              ELSE /\ crawl'[w] = Locals(None)
                   /\ UNCHANGED <<locks, records, chunk_refcount, url_chunks, store>>]_vars

\* two process_url calls were made on one URL nobody had crawled; one holds
\* the claim and has written nothing yet, the other has returned without a
\* failure and without a record: it lost the claim
C18_Witness ==
    \E w \in Workers, w2 \in Workers, url \in Urls :
        /\ w # w2
        /\ crawls = 2 /\ failures = 0
        /\ records = <<>>
        /\ locks = {url}
        /\ At(w, "mark_in_progress") /\ crawl[w].claimed /\ crawl[w].url = url
        /\ At(w2, "idle")

\* the workers other than w that hold the claim of url after the step
OtherHolders(w, url) ==
    {w2 \in Workers \ {w} : crawl'[w2].claimed /\ crawl'[w2].url = url}

\* the step in which w leaves process_url is the end of an exception: the
\* call it makes raises, or it ends the mark_failed of the except branch
ExceptionExit(w) == failures' > failures \/ crawl[w].error = LedgerErrorText

(* C19: whenever a worker that holds the claim of a URL leaves process_url *)
(* (by return or by an exception), the URL's lock key is gone and the      *)
(* URL's status is visited or failed, and failed with the error string if  *)
(* an exception ended the call; a peer that claimed the URL in between is  *)
(* left out.                                                               *)
C19_ExitReleases ==
    [][\A w \in Workers :
          (crawl[w].claimed /\ crawl'[w].pc = "idle") =>
              LET url == crawl[w].url
              IN  OtherHolders(w, url) = {} =>
                     /\ url \notin locks'
                     /\ Field(records', url, "status") \in {"visited", "failed"}
                     /\ ExceptionExit(w) =>
                           /\ Field(records', url, "status") = "failed"
                           /\ Field(records', url, "error") = LedgerErrorText]_vars

\* the global refcount of a chunk: its field of crawler:chunk_refcount,
\* 0 when the field does not exist
Refcount(chunk_hash) ==
    IF chunk_hash \in DOMAIN chunk_refcount THEN chunk_refcount[chunk_hash] ELSE 0

(* C20: whenever no process_url call is under way, every chunk's refcount  *)
(* is >= 0 and the vector store holds the chunk's document exactly when    *)
(* the refcount is >= 1, whatever the workers' interleaving and whichever  *)
(* ledger or vector-store call raised.                                     *)
C20_RefcountStore ==
    (\A w \in Workers : At(w, "idle")) =>
        \A chunk_hash \in ChunkHashes :
            /\ Refcount(chunk_hash) >= 0
            /\ DocId(chunk_hash) \in store <=> Refcount(chunk_hash) >= 1

\* the global refcount of a chunk after the step
RefcountAfter(chunk_hash) ==
    IF chunk_hash \in DOMAIN chunk_refcount' THEN chunk_refcount'[chunk_hash] ELSE 0

\* the step is one pass of the removal loop of w that raised nothing
Removes(w, chunk_hash) ==
    /\ At(w, "remove")
    /\ failures' = failures
    /\ chunk_hash \in crawl[w].chunks_to_remove \ crawl'[w].chunks_to_remove

\* url has been visited before: its record holds a content_hash
VisitedBefore(url) == HasField(records, url, "content_hash")

(* C21: in the chunk diff of the crawl of a URL that was visited before, a *)
(* chunk of old minus new has its refcount decremented by one; when the    *)
(* new value is 0 (or less) the chunk's document is deleted from the       *)
(* vector store and then its entry of the refcount hash is removed and the *)
(* diff goes on; a chunk of new minus old is incremented and its document  *)
(* put up for the upsert when the new value is 1.                          *)
C21_ChunkDiff ==
    [][\A w \in Workers :
        VisitedBefore(crawl[w].url) =>
          /\ \A chunk_hash \in ChunkHashes :
                Removes(w, chunk_hash) =>
                    /\ RefcountAfter(chunk_hash) = Refcount(chunk_hash) - 1
                    /\ RefcountAfter(chunk_hash) <= 0 <=> crawl'[w].pc = "memory_delete"
          /\ (At(w, "memory_delete") /\ crawl'[w].pc = "hdel") =>
                DocId(crawl[w].chunk_hash) \notin store'
          /\ (\E raises \in BOOLEAN : Hdel(w, raises)) =>
                /\ crawl[w].chunk_hash \notin DOMAIN chunk_refcount'
                /\ crawl'[w].pc \in {"remove", "add", "upsert", "delete_url_key"}
          /\ (At(w, "add") /\ crawl'[w] # crawl[w] /\ failures' = failures) =>
                LET chunk_hash == Hash(crawl[w].text[crawl[w].i])
                IN  /\ RefcountAfter(chunk_hash) = Refcount(chunk_hash) + 1
                    /\ crawl'[w].documents = crawl[w].documents \cup
                          (IF RefcountAfter(chunk_hash) = 1 THEN {DocId(chunk_hash)} ELSE {})
      ]_vars

(* C22: when a crawl marks its URL visited while no other worker is at     *)
(* work on that URL, the URL's chunk set in the ledger is the set of chunk *)
(* hashes of the text the crawl has fetched.                               *)
C22_ChunkSetCurrent ==
    [][\A w \in Workers :
          (/\ At(w, "mark_visited") /\ crawl'[w].pc = "release_lock"
           /\ Holders(crawl[w].url) = {w}) =>
              url_chunks'[crawl[w].url] = NewChunks(crawl[w].text)]_vars

\* w is on the path of the unchanged page: between the comparison that
\* found the hashes equal and its return
NoChange(w) ==
    /\ crawl[w].pc \in {"mark_visited", "release_lock"}
    /\ crawl[w].after_release = "return"
    /\ crawl[w].error = None

(* C23: a crawl that finds the stored content_hash equal to the hash of    *)
(* the text it fetched goes straight to mark_visited and returns after it; *)
(* none of its steps changes the vector store, a chunk refcount or a chunk *)
(* set, and its mark_visited writes status visited with that same hash.    *)
C23_NoChangeFrame ==
    [][\A w \in Workers :
          LET url == crawl[w].url
          IN  /\ (/\ At(w, "get_content_hash") /\ crawl'[w] # crawl[w]
                  /\ failures' = failures
                  /\ HasField(records, url, "content_hash")
                  /\ records[url].content_hash = Hash(crawl[w].text)) =>
                     /\ crawl'[w].pc = "mark_visited"
                     /\ crawl'[w].after_release = "return"
                     /\ UNCHANGED <<store, chunk_refcount, url_chunks, records>>
              /\ (NoChange(w) /\ crawl'[w] # crawl[w]) =>
                     /\ UNCHANGED <<store, chunk_refcount, url_chunks>>
                     /\ (At(w, "mark_visited") /\ failures' = failures) =>
                            /\ records'[url].status = "visited"
                            /\ records'[url].content_hash = Hash(crawl[w].text)
                            /\ crawl'[w].pc = "release_lock"
                     /\ (At(w, "release_lock") /\ failures' = failures) =>
                            crawl'[w] = Locals(None)]_vars

\* a crawl that found its page unchanged has marked the URL visited
C23_Witness ==
    \E w \in Workers :
        /\ NoChange(w) /\ At(w, "release_lock")
        /\ Field(records, crawl[w].url, "status") = "visited"

\* the step is one of worker w, standing at pc, and no call of it raised
StepAt(w, pc) == At(w, pc) /\ crawl'[w] # crawl[w] /\ failures' = failures

(* C28: process_url on a URL whose status is visited returns at the        *)
(* freshness gate and changes neither the lock, the records, the refcounts,*)
(* the chunk sets nor the vector store; on a URL whose status is failed it *)
(* passes the gate, acquires the lock if it is free, and goes on to        *)
(* mark_in_progress and the fetch.                                         *)
C28_RetryFailedSkipVisited ==
    [][\A w \in Workers :
          LET url == crawl[w].url
              status == Field(records, url, "status")
          IN  /\ StepAt(w, "has_been_crawled") =>
                    IF status = "visited"
                    THEN /\ crawl'[w] = Locals(None)
                         /\ UNCHANGED <<locks, records, chunk_refcount, url_chunks, store>>
                    ELSE crawl'[w].pc = "claim_for_crawling"
              /\ (StepAt(w, "claim_for_crawling") /\ status = "failed" /\ url \notin locks) =>
                    /\ crawl'[w].pc = "mark_in_progress"
                    /\ url \in locks'
              /\ (StepAt(w, "mark_in_progress") /\ status = "failed") =>
                    /\ crawl'[w].pc = "fetch"
                    /\ records'[url].status = "in_progress"]_vars

\* a URL whose crawl had failed (its record keeps the error) is claimed by
\* the only worker at work and stands at the fetch again
C28_Witness ==
    \E w \in Workers, url \in Urls :
        /\ At(w, "fetch") /\ crawl[w].url = url
        /\ \A w2 \in Workers \ {w} : At(w2, "idle")
        /\ crawls = 2
        /\ HasField(records, url, "error")
        /\ records[url].status = "in_progress"
        /\ locks = {url}

(* C24: at all times the length of the ledger's crawl queue is at most     *)
(* MAX_QUEUE_SIZE plus the number of fetch workers, whatever the           *)
(* interleaving of enqueue manager, fetch workers, POST /crawl and the     *)
(* sentinels of stop().                                                    *)
C24_QueueBounded ==
    Len(crawl_queue) <= MAX_QUEUE_SIZE + Cardinality(Workers)

(* C26: each URL enters the crawl queue at most once over the crawler's    *)
(* lifetime: the enqueue manager pushes it at most once, and never when it *)
(* was submitted as a seed through POST /crawl.                            *)
C26_AdmittedOnce ==
    \A url \in QueueUrls : admitted[url] + (IF url \in seeded THEN 1 ELSE 0) <= 1

(* C27: once stop() has been called it eventually returns, with every      *)
(* fetch worker and the enqueue manager exited.                            *)
C27_StopReturns ==
    (stopper.pc # "running") ~>
        (/\ stopper.pc = "returned"
         /\ manager.pc = "exited"
         /\ \A w \in Workers : fetch[w].pc = "exited")

(* C25: a fetch attempt to a domain completes no sooner than               *)
(* DOMAIN_RATE_LIMIT after the attempt to that domain that completed       *)
(* before it, retries inside _rate_limited_fetch included.                 *)
C25_CompletedSpacing ==
    [][(last_completed' # last_completed /\ last_completed # Never) =>
          last_completed' - last_completed >= DOMAIN_RATE_LIMIT]_vars

(* C29: a result callback with type -1 for a known request leaves its      *)
(* status done; a request that is done stays done under every later        *)
(* callback; a callback with type >= 0 for a pending request appends its   *)
(* text (CR LF turned into LF) to the accumulated result and leaves the    *)
(* request pending.                                                        *)
C29_DoneIsFinal ==
    [][\A request_id \in DOMAIN pending_requests, text \in ResultTexts, type \in ResultTypes :
          HandleResult(request_id, text, type) =>
             LET req == pending_requests[request_id]
                 after == pending_requests'[request_id]
             IN  /\ type = -1 => after.status = "done"
                 /\ req.status = "done" => after.status = "done"
                 /\ (type >= 0 /\ req.status = "pending") =>
                        /\ after.result = req.result \o ReplaceCrLf(text)
                        /\ after.status = "pending"
      ]_vars

\* the goals in the order their func was started
Started ==
    [i \in 1..Len(executed) |-> executed[i].msg] \o
        (IF drain.pc = "func" THEN <<drain.msg>> ELSE <<>>)

(* C30: at most one queued goal is being executed at any time, the goals   *)
(* are started in the order in which they were enqueued, and every goal    *)
(* enqueued is eventually executed, also when goals before it raised.      *)
C30_OneAtATimeFifo ==
    /\ [](/\ Cardinality(running) <= 1
          /\ Len(Started) <= Len(submitted)
          /\ Started = SubSeq(submitted, 1, Len(Started)))
    /\ \A msg \in QueuedGoals :
          (msg \in Range(submitted)) ~> (\E i \in DOMAIN executed : executed[i].msg = msg)

\* every goal has been executed, out of arrival order g2 g1 g3, after the first raised
C30_Witness ==
    /\ submitted = <<"g2", "g1", "g3">>
    /\ Len(executed) = 3
    /\ executed[1].raised
    /\ ~executed[3].raised

\* the workers between their successful claim of url and the end of their
\* mark_visited or mark_failed
Processing(url) == {w \in Holders(url) : ~At(w, "links")}

(* C37: at most one worker is between its successful claim of a URL and    *)
(* the end of its mark_visited or mark_failed; and the release_lock of a   *)
(* worker never deletes the lock key of a URL that another worker has      *)
(* claimed and is still processing.                                        *)
C37_LockOwned ==
    /\ [](\A url \in Urls : Cardinality(Processing(url)) <= 1)
    /\ [][\A w \in Workers :
            (/\ At(w, "release_lock")
             /\ crawl[w].url \in locks
             /\ crawl[w].url \notin locks'
             /\ crawl'[w] # crawl[w]) =>
                Processing(crawl[w].url) \ {w} = {}]_vars

(* C38: after stop() has returned the crawl queue holds no "shutdown"      *)
(* sentinel, and no fetch worker of a crawler that is running (stop() not  *)
(* called since its start) has exited.                                     *)
C38_NoSentinelLeft ==
    /\ stopper.pc = "returned" => Shutdown \notin Range(crawl_queue)
    /\ stopper.pc = "running" => \A w \in Workers : fetch[w].pc # "exited"

(* C39: while the crawler is running there is no state in which every      *)
(* fetch worker waits to put a link into the full discovery channel and    *)
(* the enqueue manager waits for the crawl queue to fall below             *)
(* MAX_QUEUE_SIZE.                                                         *)
C39_NoDeadlock ==
    ~(/\ stopper.pc = "running"
      /\ \A w \in Workers : fetch[w].pc = "put"
      /\ ~CanPut
      /\ manager.pc = "backpressure"
      /\ ~Admits(crawl_queue))

(* C36: in every active graph (of a valid plan) completed_nodes_count is   *)
(* the number of distinct nodes on_node_complete has run for, every one of *)
(* them a node that was dispatched, so that the count never exceeds the    *)
(* number of nodes.                                                        *)
C36_CountDistinct ==
    \A r \in DOMAIN active_graphs :
        LET g == active_graphs[r]
        IN  ValidPlan(g.plan) =>
               /\ g.completed_nodes_count = Cardinality(done_nodes[r])
               /\ done_nodes[r] \subseteq sent_nodes[r]
               /\ g.completed_nodes_count <= Len(g.plan.nodes)


(* C35: once a request has been planned again, a RESOLVED thought that      *)
(* answers a goal of the previous graph (its node was not dispatched for    *)
(* the graph now active) leaves the active graph of that request unchanged  *)
C35_StaleThoughtIgnored ==
    [][\A t \in BagToSet(thoughts) :
          (/\ DeliverResolved(t)
           /\ t.request_id \in DOMAIN active_graphs
           /\ t.node_id \notin sent_nodes[t.request_id]) =>
              /\ t.request_id \in DOMAIN active_graphs'
              /\ active_graphs'[t.request_id] = active_graphs[t.request_id]]_vars


\* the premises of the liveness of the graph of r, as far as the state
\* records them: the plan is a valid DAG, no other plan is waiting for r, an
\* agent was there for every node popped, every reply delivered was the one
\* RESOLVED thought of a dispatched node and carried an impression
PlanPremises(r) ==
    LET g == active_graphs[r]
    IN  /\ ValidPlan(g.plan)
        /\ plan_goals[r] = 0
        /\ \A n \in NodeSet(g.plan) : GetAgent(registry, g.plan.type[n]) # None
        /\ g.running_nodes \subseteq sent_nodes[r]
        /\ Cardinality(sent_steps[r]) = Cardinality(sent_nodes[r])
        /\ done_nodes[r] \subseteq sent_nodes[r]
        /\ g.completed_nodes_count = Cardinality(done_nodes[r])
        /\ \A n \in done_nodes[r] : g.node_outputs[n] # <<>>

\* a goal or a thought of request r is on its way
InFlight(r) ==
    \/ \E goal \in BagToSet(goals) : goal.request_id = r
    \/ \E t \in BagToSet(thoughts) : t.request_id = r

(* C34: a request whose plan is a valid DAG, with an agent registered for   *)
(* every node type and every dispatched node answering RESOLVED with an     *)
(* impression, ends with the final Response emitted: while its graph is     *)
(* active a goal or the reply to one is on its way, so the graph is never   *)
(* left waiting for nothing                                                 *)
C34_ValidPlanCompletes ==
    \A r \in DOMAIN active_graphs : PlanPremises(r) => InFlight(r)


(* C40: every UserQuery enqueued through POST /submit is forwarded to the   *)
(* conductor exactly once and in submission order, also when the conductor  *)
(* is not registered while the queue is drained: what was sent, followed by *)
(* what still waits in the queue, is what was submitted                     *)
C40_QueriesForwarded ==
    gateway.sent \o gateway.query_queue = gateway.submits


(* C31: _condense_context ends whatever the LLM answers, calls the LLM at   *)
(* most MAX_CONDENSE_ATTEMPTS times and returns at most CONTEXT_THRESHOLD   *)
(* characters; process_synthesis goes through all its chunks, those after   *)
(* a chunk whose handling failed included                                   *)
C31_CondenseBounded ==
    /\ [](/\ architect.llm_calls <= MAX_CONDENSE_ATTEMPTS
          /\ Len(architect.returned) <= CONTEXT_THRESHOLD
          /\ Len(architect.running_context) <= CONTEXT_THRESHOLD
          /\ architect.pc \in {"final", "done"} /\ architect.caller # "test" =>
                architect.i = Len(architect.chunks) + 1)
    /\ (architect.pc # "start") ~> (architect.pc = "done")

\* a context above the threshold came back truncated after an LLM call
C31_Witness ==
    /\ architect.pc = "done"
    /\ architect.caller = "test"
    /\ Len(architect.current) > CONTEXT_THRESHOLD
    /\ architect.llm_calls > 0
    /\ Len(architect.returned) = CONTEXT_THRESHOLD


AddressOrder(entries) == [i \in DOMAIN entries |-> entries[i].address]

(* C32: registering a pair (type, address) that is registered already,      *)
(* whatever was registered, leased or released since, keeps the addresses   *)
(* of every type and their order, gives the agent the status of its first   *)
(* registration ("idle") and leaves every other agent's status as it is     *)
C32_RegisterIdempotent ==
    [][\A agent_type \in AgentTypes, address \in Addresses :
          (/\ AgentRegister(agent_type, address)
           /\ HasAddress(AgentsOf(agent_registry.agents, agent_type), address)) =>
              LET before == agent_registry.agents
                  after == agent_registry'.agents
              IN  /\ DOMAIN after = DOMAIN before
                  /\ \A t \in DOMAIN before :
                        /\ AddressOrder(after[t]) = AddressOrder(before[t])
                        /\ \A i \in DOMAIN before[t] :
                              after[t][i].status =
                                  IF t = agent_type /\ before[t][i].address = address
                                  THEN "idle" ELSE before[t][i].status]_vars

\* the first of two agents of a type was registered again while the second
\* one is leased
C32_Witness ==
    \E agent_type \in DOMAIN agent_registry.agents :
        LET entries == agent_registry.agents[agent_type]
        IN  /\ Len(entries) = 2
            /\ <<agent_type, entries[1].address>> \in agent_registry.again
            /\ entries[1].status = "idle"
            /\ entries[2].status = "busy"


(* C33: of two callers that have created a session with the same explicit   *)
(* session_id exactly one has returned, the other one has raised            *)
(* LedgerError, and the stored record is the one of the caller that         *)
(* returned                                                                 *)
C33_AtomicCreate ==
    \A c \in Callers, o \in Callers :
        LET mine == session_ledger.call[c]
            other == session_ledger.call[o]
        IN  (/\ c # o
             /\ mine.pc = "returned"
             /\ other.pc \in {"returned", "raised"}
             /\ other.session_id = mine.session_id) =>
                /\ other.pc = "raised"
                /\ session_ledger.hashes[mine.session_id].user_id = mine.user_id

====
